---- MODULE Spec2Model ----
(***************************************************************************)
(* The adaptive notification engine of the fitness backend: the three      *)
(* reminder schedulers (water, progress, tracking), the push dispatcher    *)
(* and the pruning of device tokens, together with the request handlers    *)
(* that touch the device-token table.                                      *)
(*                                                                         *)
(* Scheduling.  start(), stop() and the run loops are coroutines of one    *)
(* asyncio event loop.  A tick body (_send_reminder / _send_reminders)     *)
(* contains no await: its storage and transport calls block the event      *)
(* loop, so no other coroutine runs while a tick is in flight.  The        *)
(* request handlers are plain `def` endpoints, run on worker threads, and  *)
(* do interleave with the steps of a tick.                                 *)
(***************************************************************************)
EXTENDS Integers, Sequences, FiniteSets, TLC

\* ------------------------------------------------------------------ bounds
MaxUsers == 2
MaxTokens == 2
MaxTasks == 2
MaxTicks == 2
MaxRequests == 1
MaxRecipients == 1001

Users == 1..MaxUsers
Tokens == 1..MaxTokens
Schedulers == {"water", "progress", "tracking"}
Kinds == {"weight", "photo"}
Outcomes == {"delivered", "transient", "invalid"}

VARIABLES
    firebase_app,      \* firebase_service.firebase_app is set (credentials loaded)
    enabled,           \* scheduler.enabled
    _task,             \* scheduler._task: 0 (None) or the index of a task in tasks
    _stop_event,       \* scheduler._stop_event is set
    tasks,             \* every asyncio task created for a run loop, in creation order
    stopCall,          \* per scheduler, the stop() call in progress or last finished
    startNoop,         \* per scheduler, why its last start() call created no task
    is_active,         \* User.is_active
    device_tokens,     \* rows of the device_tokens table
    last_reminder_at,  \* User.last_weight_reminder_at / last_progress_photo_reminder_at
    tick,              \* the tick in flight on the event loop, or NoTick
    req,               \* the send request in flight on a worker thread, or NoReq
    nreq,              \* requests handled so far
    pruneHist,         \* the token list of the last prune, and whether it was repeated
    calls,             \* the calls a dispatch made to the push transport
    recipients,        \* the token list a dispatch is asked to send to
    calc,              \* one user's data and what _build_user_reminder made of it
    push,              \* one send_push_notification call: the transport's answers and the result
    track,             \* the clock, the latest logs and the reminders of the tracking ticks
    reg,               \* the register_device_token requests in flight
    app,               \* the application's startup and shutdown handlers
    auth               \* the user_sessions table, the tokens issued and the last auth request

vars == <<firebase_app, enabled, _task, _stop_event, tasks, stopCall, startNoop,
          is_active, device_tokens, last_reminder_at, tick, req, nreq,
          pruneHist, calls, recipients, calc, push, track, reg, app, auth>>

schedVars == <<enabled, _task, _stop_event, tasks, stopCall, startNoop>>
storeVars == <<is_active, device_tokens, last_reminder_at>>

NoTick == [phase |-> "none"]
NoReq == [phase |-> "none"]
NoStop == [st |-> "none"]
NoCalls == [caller |-> "none", lists |-> <<>>]
NoCalc == [phase |-> "none"]
NoPush == [phase |-> "none"]
NoTrack == [phase |-> "none"]
NoReg == [phase |-> "none"]
NoApp == [phase |-> "none"]
NoAuth == [phase |-> "none"]

\* ------------------------------------------------------------------ helpers
RECURSIVE SetToSeq(_)
SetToSeq(S) ==
    IF S = {} THEN <<>>
    ELSE LET m == CHOOSE x \in S : \A y \in S : x <= y
         IN <<m>> \o SetToSeq(S \ {m})

Range(s) == {s[i] : i \in 1..Len(s)}

RECURSIVE SumTicks(_, _)
SumTicks(ts, i) == IF i = 0 THEN 0 ELSE ts[i].ticks + SumTicks(ts, i - 1)

\* asyncio.Task.done(): the coroutine returned or raised
Done(t) == tasks[t].st \in {"done", "failed"}
Alive(t) == ~Done(t)
AliveTasks(s) == {t \in 1..Len(tasks) : tasks[t].sched = s /\ Alive(t)}

\* the event loop runs one coroutine at a time and a tick never yields
LoopFree == tick = NoTick

\* ------------------------------------------------------------ dispatcher
\* firebase_service._chunk-free path: the token lists send_push_notification hands
\* to messaging.send_each_for_multicast, one MulticastMessage for all of `tokens`
TransportCalls(tokens) == IF tokens = <<>> THEN <<>> ELSE <<tokens>>

\* the tokens of `tokens` the transport answered for with an invalid-token error
InvalidOf(tokens, out) == {tk \in Range(tokens) : out[tk] = "invalid"}

\* send_push_notification on a configured transport; `out` is the transport's
\* per-token answer.  An empty list returns early with no invalid_tokens key.
send_push_notification(tokens, out) ==
    IF tokens = <<>>
    THEN [success |-> 0, failure |-> 0, invalid_tokens |-> {}]
    ELSE [success |-> Cardinality({tk \in Range(tokens) : out[tk] = "delivered"}),
          failure |-> Cardinality({tk \in Range(tokens) : out[tk] # "delivered"}),
          invalid_tokens |-> InvalidOf(tokens, out)]

\* notifications._chunk_tokens: tokens[idx : idx + size] for idx in range(0, len, size)
RECURSIVE _chunk_tokens(_, _)
_chunk_tokens(tokens, size) ==
    IF Len(tokens) = 0 THEN <<>>
    ELSE IF Len(tokens) <= size THEN <<tokens>>
    ELSE <<SubSeq(tokens, 1, size)>> \o _chunk_tokens(SubSeq(tokens, size + 1, Len(tokens)), size)

\* ----------------------------------------------------------- token store
TokenSet(rows) == {r.token : r \in rows}
TokensOf(rows, u) == SetToSeq({r.token : r \in {x \in rows : x.user_id = u}})

DeleteFirstMatch(rows, invalid) ==
    LET hit == {r \in rows : r.token \in invalid}
    IN IF hit = {} THEN rows
       ELSE rows \ {CHOOSE r \in hit : \A q \in hit : r.token <= q.token}

\* session.query(DeviceToken).filter(DeviceToken.token.in_(invalid)).delete()
DeleteTokens(rows, invalid) == {r \in rows : r.token \notin invalid}

\* session.query(DeviceToken).join(User).filter(User.is_active == True).all()
ActiveTokenRows == {r \in device_tokens : is_active[r.user_id]}

\* ------------------------------------------------------------- lifecycle
\* a task as asyncio.create_task(self._run()) leaves it; `pred` records what
\* self._task referenced when start() replaced it
NewTask(s) ==
    [sched |-> s, st |-> "created", ticks |-> 0, timedOut |-> FALSE,
     pred |-> IF _task[s] = 0 THEN "none"
              ELSE IF tasks[_task[s]].st \in {"done", "failed"} THEN "done" ELSE "alive"]

AlreadyRunningNever(s) == FALSE

\* start(): `if self._task and not self._task.done(): return`
AlreadyRunning(s) == _task[s] # 0 /\ ~Done(_task[s])

WakeNone(ts, s) == ts

\* asyncio.Event.set() resolves the wait of every task waiting on the event
Wake(ts, s) ==
    [i \in 1..Len(ts) |->
        IF ts[i].sched = s /\ ts[i].st = "waiting" THEN [ts[i] EXCEPT !.st = "woken"] ELSE ts[i]]

\* start(), stop() and stop_resume() say nothing of `app`: the caller does
start(s) ==
    /\ LoopFree
    /\ IF ~enabled[s] THEN
            /\ startNoop' = [startNoop EXCEPT ![s] = "disabled"]
            /\ UNCHANGED <<_task, _stop_event, tasks, stopCall>>
       ELSE IF AlreadyRunning(s) THEN
            /\ startNoop' = [startNoop EXCEPT ![s] = "running"]
            /\ UNCHANGED <<_task, _stop_event, tasks, stopCall>>
       ELSE
            /\ startNoop' = [startNoop EXCEPT ![s] = "none"]
            /\ Len(tasks) < MaxTasks
            /\ _stop_event' = [_stop_event EXCEPT ![s] = FALSE]
            /\ tasks' = Append(tasks, NewTask(s))
            /\ _task' = [_task EXCEPT ![s] = Len(tasks) + 1]
            /\ stopCall' = [stopCall EXCEPT ![s] =
                              IF @.st = "none" THEN @ ELSE [@ EXCEPT !.restarted = TRUE]]
    /\ UNCHANGED <<firebase_app, enabled, storeVars, tick, req, nreq, pruneHist, calls, recipients, calc, push, track, reg, auth>>

\* how `await self._task` ends once the task is done: the task's exception is
\* re-raised in stop() and `self._task = None` is skipped
AwaitEnds(t) == IF tasks[t].st = "failed" THEN "raised" ELSE "returned"

AwaitResumesAtOnce(t) == TRUE

\* `await self._task` resumes stop() only once the task is done
AwaitResumes(t) == Done(t)

\* stop() up to its await.  Awaiting a task that is already done does not yield.
stop(s) ==
    /\ LoopFree
    /\ stopCall[s].st # "awaiting"
    /\ UNCHANGED startNoop
    /\ IF _task[s] = 0 THEN
            /\ UNCHANGED <<_task, _stop_event, tasks, stopCall>>
       ELSE LET t == _task[s]
                call == [task |-> t, early |-> ~tasks[t].timedOut,
                         fresh |-> tasks[t].st = "created", restarted |-> FALSE]
            IN
            /\ _stop_event' = [_stop_event EXCEPT ![s] = TRUE]
            /\ tasks' = Wake(tasks, s)
            /\ IF AwaitResumes(t) THEN
                    /\ stopCall' = [stopCall EXCEPT ![s] = call @@ [st |-> AwaitEnds(t)]]
                    /\ _task' = [_task EXCEPT ![s] = IF AwaitEnds(t) = "returned" THEN 0 ELSE @]
               ELSE
                    /\ stopCall' = [stopCall EXCEPT ![s] = call @@ [st |-> "awaiting"]]
                    /\ UNCHANGED _task
    /\ UNCHANGED <<firebase_app, enabled, storeVars, tick, req, nreq, pruneHist, calls, recipients, calc, push, track, reg, auth>>

\* stop() after its await: `self._task = None`, unless the await raised
stop_resume(s) ==
    /\ LoopFree
    /\ stopCall[s].st = "awaiting"
    /\ AwaitResumes(stopCall[s].task)
    /\ stopCall' = [stopCall EXCEPT ![s].st = AwaitEnds(stopCall[s].task)]
    /\ _task' = [_task EXCEPT ![s] = IF AwaitEnds(stopCall[s].task) = "returned" THEN 0 ELSE @]
    /\ UNCHANGED <<_stop_event, tasks, startNoop>>
    /\ UNCHANGED <<firebase_app, enabled, storeVars, tick, req, nreq, pruneHist, calls, recipients, calc, push, track, reg, auth>>

\* -------------------------------------------------------------- run loop
SchedOf(t) == tasks[t].sched

LoopIgnoresEvent(t) == TRUE

\* `while not self._stop_event.is_set()`, evaluated when the task first runs, when
\* its wait_for returned because the event was set, and after a TimeoutError
LoopContinues(t) == ~_stop_event[SchedOf(t)]

AtLoopTest(t) == tasks[t].st \in {"created", "woken", "waiting"}

\* where the loop goes after the tick body returned: wait_for(self._stop_event.wait())
\* returns at once when the event is already set
AfterTick(t) == IF _stop_event[SchedOf(t)] THEN "woken" ELSE "waiting"

\* _run leaves the loop: the coroutine returns and the task is done
RunExit(t) ==
    /\ LoopFree
    /\ t \in 1..Len(tasks)
    /\ AtLoopTest(t)
    /\ ~LoopContinues(t)
    /\ tasks' = [tasks EXCEPT ![t].st = "done"]
    /\ UNCHANGED <<firebase_app, enabled, _task, _stop_event, stopCall, startNoop,
                   storeVars, tick, req, nreq, pruneHist, calls, recipients, calc, push, track, reg, app, auth>>

\* the send_push_notification calls a tick has made, per user and reminder
Reminders == {"progress"} \cup Kinds
NoAttempts == [a \in Users \X Reminders |-> 0]
Attempt(attempts, u, k) == [attempts EXCEPT ![<<u, k>>] = @ + 1]

SendReturnsWhenCalled(called) == called

\* a send_push_notification call inside a tick's try block returns a result,
\* rather than raise into the except clause, when the transport is configured
SendReturns(called) == called /\ firebase_app

\* the tick's first storage read: the token rows it fans out to
Loaded(s) == IF s = "water" THEN device_tokens ELSE ActiveTokenRows

\* _run enters the tick body, which opens a session and loads the token rows.  The
\* storage read may raise; nothing in _send_reminder(s) or _run catches that.
BeginTick(t) ==
    /\ LoopFree
    /\ t \in 1..Len(tasks)
    /\ AtLoopTest(t)
    /\ LoopContinues(t)
    /\ SumTicks(tasks, Len(tasks)) < MaxTicks
    /\ LET s == SchedOf(t)
           rows == Loaded(s)
           ran == [tasks[t] EXCEPT !.ticks = @ + 1,
                                   !.timedOut = @ \/ tasks[t].st = "waiting"]
       IN \E read \in {"ok", "raise"} :
            IF read = "raise" THEN
                /\ tasks' = [tasks EXCEPT ![t] = [ran EXCEPT !.st = "failed"]]
                /\ UNCHANGED tick
            ELSE IF rows = {} THEN
                /\ tasks' = [tasks EXCEPT ![t] = [ran EXCEPT !.st = AfterTick(t)]]
                /\ UNCHANGED tick
            ELSE
                /\ tasks' = [tasks EXCEPT ![t] = [ran EXCEPT !.st = "tick"]]
                /\ tick' = [phase |-> IF s = "water" THEN "send" ELSE "users",
                            sched |-> s, task |-> t,
                            now |-> SumTicks(tasks, Len(tasks)) + 1,
                            tokens |-> SetToSeq(TokenSet(rows)),
                            tokens_by_user |-> [u \in Users |-> TokensOf(rows, u)],
                            pending |-> {r.user_id : r \in rows},
                            invalid_tokens |-> {}, reported |-> {}, stamps |-> {},
                            attempts |-> NoAttempts]
    /\ UNCHANGED <<firebase_app, enabled, _task, _stop_event, stopCall, startNoop,
                   storeVars, req, nreq, pruneHist, calls, recipients, calc, push, track, reg, app, auth>>

\* the tick body returned: the loop goes to its wait
TickReturns ==
    /\ tasks' = [tasks EXCEPT ![tick.task].st = AfterTick(tick.task)]
    /\ tick' = NoTick

\* an exception leaves the tick body: `finally: session.close()` drops what the
\* session held, and the exception ends _run
TickRaises ==
    /\ tasks' = [tasks EXCEPT ![tick.task].st = "failed"]
    /\ tick' = NoTick

\* WaterReminderScheduler._send_reminder after _fetch_tokens: one send to every
\* token, inside try/except Exception.  `reported` is what result holds.
WaterSend ==
    /\ tick.phase = "send"
    /\ \E out \in [Range(tick.tokens) -> Outcomes] :
         tick' = [tick EXCEPT !.phase = "log",
                              !.reported = IF firebase_app THEN InvalidOf(tick.tokens, out) ELSE {}]
    /\ UNCHANGED <<firebase_app, schedVars, storeVars, req, nreq, pruneHist, calls, recipients, calc, push, track, reg, app, auth>>

\* the rest of _send_reminder: the result (or the exception) is logged, nothing
\* is done with result["invalid_tokens"], and the tick body returns
WaterLog ==
    /\ tick.phase = "log"
    /\ TickReturns
    /\ UNCHANGED <<firebase_app, enabled, _task, _stop_event, stopCall, startNoop,
                   storeVars, req, nreq, pruneHist, calls, recipients, calc, push, track, reg, app, auth>>

CollectSentTo(acc, tokens, result) == acc \cup Range(tokens)

VisitedAgain(pending, u) == pending

\* `for user_id, tokens in tokens_by_user.items()`: the users still to come
\* once the iteration for u is over
Visited(pending, u) == pending \ {u}

\* `invalid_tokens.extend(result.get("invalid_tokens") or [])`
Collect(acc, tokens, result) == acc \cup result.invalid_tokens

\* one iteration of the `for user_id, tokens in tokens_by_user.items()` loop of
\* ProgressReminderScheduler._send_reminders.  _build_user_reminder runs outside
\* the try; `build` is what it does on the user's data: raise, return None, or
\* return a reminder.  Only the send is inside try/except Exception.
ProgressUser(u) ==
    /\ tick.phase = "users"
    /\ tick.sched = "progress"
    /\ u \in tick.pending
    /\ LET tokens == tick.tokens_by_user[u]
       IN \E build \in {"raise", "none", "reminder"}, out \in [Range(tokens) -> Outcomes] :
            IF build = "raise" THEN
                TickRaises
            ELSE
                LET sends == SendReturns(build = "reminder")
                    result == send_push_notification(tokens, out)
                IN /\ tick' = [tick EXCEPT
                                !.pending = Visited(@, u),
                                !.invalid_tokens = IF sends THEN Collect(@, tokens, result) ELSE @,
                                !.reported = IF sends THEN @ \cup InvalidOf(tokens, out) ELSE @,
                                !.attempts = IF build = "reminder"
                                             THEN Attempt(@, u, "progress") ELSE @,
                                !.phase = IF tick.pending = {u} THEN "prune" ELSE "users"]
                   /\ UNCHANGED tasks
    /\ UNCHANGED <<firebase_app, enabled, _task, _stop_event, stopCall, startNoop,
                   storeVars, req, nreq, pruneHist, calls, recipients, calc, push, track, reg, app, auth>>

\* one iteration of the user loop of TrackingReminderScheduler._send_reminders:
\* the weight check and send, then the photo check and send.  The due checks
\* (`wd`, `pd`: what _should_send_*_reminder does on the user's logs) run outside
\* the try blocks; a send that raises leaves its stamp unset.
TrackingUser(u) ==
    /\ tick.phase = "users"
    /\ tick.sched = "tracking"
    /\ u \in tick.pending
    /\ LET tokens == tick.tokens_by_user[u]
       IN \E wd \in {"raise", "no", "due"}, pd \in {"raise", "no", "due"},
             wout \in [Range(tokens) -> Outcomes], pout \in [Range(tokens) -> Outcomes] :
            LET wsends == SendReturns(wd = "due")
                psends == SendReturns(pd = "due")
                wres == send_push_notification(tokens, wout)
                pres == send_push_notification(tokens, pout)
                inv1 == IF wsends THEN Collect(tick.invalid_tokens, tokens, wres)
                        ELSE tick.invalid_tokens
                rep1 == IF wsends THEN tick.reported \cup InvalidOf(tokens, wout)
                        ELSE tick.reported
                st1 == IF wsends THEN tick.stamps \cup {<<u, "weight">>} ELSE tick.stamps
            IN
            IF wd = "raise" \/ pd = "raise" THEN
                TickRaises
            ELSE
                /\ tick' = [tick EXCEPT
                             !.pending = Visited(@, u),
                             !.invalid_tokens = IF psends THEN Collect(inv1, tokens, pres) ELSE inv1,
                             !.reported = IF psends THEN rep1 \cup InvalidOf(tokens, pout) ELSE rep1,
                             !.stamps = IF psends THEN st1 \cup {<<u, "photo">>} ELSE st1,
                             !.attempts =
                                LET a1 == IF wd = "due" THEN Attempt(@, u, "weight") ELSE @
                                IN IF pd = "due" THEN Attempt(a1, u, "photo") ELSE a1,
                             !.phase = IF tick.pending = {u} THEN "prune" ELSE "users"]
                /\ UNCHANGED tasks
    /\ UNCHANGED <<firebase_app, enabled, _task, _stop_event, stopCall, startNoop,
                   storeVars, req, nreq, pruneHist, calls, recipients, calc, push, track, reg, app, auth>>

\* what a prune records: its token list, and whether the prune before it had the
\* same list with no registration in between
Pruned(invalid) == [list |-> invalid, repeated |-> pruneHist.list = invalid]

\* the end of _send_reminders: `if invalid_tokens:` delete the rows whose token is
\* in the list; the progress tick commits inside the if, the tracking tick
\* commits always (its stamps with it).  Then the tick body returns.
TickPrune ==
    /\ tick.phase = "prune"
    /\ device_tokens' = IF tick.invalid_tokens # {}
                        THEN DeleteTokens(device_tokens, tick.invalid_tokens)
                        ELSE device_tokens
    /\ pruneHist' = IF tick.invalid_tokens # {} THEN Pruned(tick.invalid_tokens) ELSE pruneHist
    /\ last_reminder_at' =
          [u \in Users |-> [k \in Kinds |->
              IF <<u, k>> \in tick.stamps THEN tick.now ELSE last_reminder_at[u][k]]]
    /\ TickReturns
    /\ UNCHANGED <<firebase_app, enabled, _task, _stop_event, stopCall, startNoop,
                   is_active, req, nreq, calls, recipients, calc, push, track, reg, app, auth>>

\* ------------------------------------------------------ request handlers
\* notifications._chunk_tokens' default size
ChunkSize == 500

\* POST /water/tokens: the row with this token is re-owned, or a row is added
register_device_token(u, tk) ==
    /\ nreq < MaxRequests
    /\ is_active[u]
    /\ nreq' = nreq + 1
    /\ device_tokens' = {r \in device_tokens : r.token # tk} \cup {[token |-> tk, user_id |-> u]}
    /\ pruneHist' = [pruneHist EXCEPT !.list = {}]
    /\ UNCHANGED <<firebase_app, schedVars, is_active, last_reminder_at, tick,
                   req, calls, recipients, calc, push, track, reg, app, auth>>

\* DELETE /water/tokens: the caller's own row with this token
unregister_device_token(u, tk) ==
    /\ nreq < MaxRequests
    /\ is_active[u]
    /\ [token |-> tk, user_id |-> u] \in device_tokens
    /\ nreq' = nreq + 1
    /\ device_tokens' = device_tokens \ {[token |-> tk, user_id |-> u]}
    /\ UNCHANGED <<firebase_app, schedVars, is_active, last_reminder_at, tick,
                   req, pruneHist, calls, recipients, calc, push, track, reg, app, auth>>

\* a handler sent to `tokens` and holds the result; its prune comes next
Sent(kind, invalid, reported) ==
    IF invalid = {} THEN NoReq
    ELSE [phase |-> "prune", kind |-> kind, invalid_tokens |-> invalid, reported |-> reported]

\* POST /water/reminder up to the send: the caller's tokens in one send.  No
\* tokens is a 400, an unconfigured transport a 500.
send_water_reminder(u) ==
    /\ nreq < MaxRequests
    /\ req = NoReq
    /\ is_active[u]
    /\ nreq' = nreq + 1
    /\ LET tokens == TokensOf(device_tokens, u)
       IN \E out \in [Range(tokens) -> Outcomes] :
            LET result == send_push_notification(tokens, out)
            IN req' = IF tokens = <<>> \/ ~firebase_app THEN NoReq
                      ELSE Sent("reminder", result.invalid_tokens, InvalidOf(tokens, out))
    /\ UNCHANGED <<firebase_app, schedVars, storeVars, tick, pruneHist, calls, recipients, calc, push, track, reg, app, auth>>

\* POST /notifications/admin/send up to its sends: the tokens of the audience,
\* without duplicates, sent chunk by chunk
admin_send_notification(audience) ==
    /\ nreq < MaxRequests
    /\ req = NoReq
    /\ nreq' = nreq + 1
    /\ LET tokens == SetToSeq({r.token : r \in {x \in device_tokens : x.user_id \in audience}})
           chunks == _chunk_tokens(tokens, ChunkSize)
       IN \E out \in [Range(tokens) -> Outcomes] :
            LET invalid == UNION {send_push_notification(chunks[i], out).invalid_tokens :
                                    i \in 1..Len(chunks)}
            IN req' = IF tokens = <<>> \/ ~firebase_app THEN NoReq
                      ELSE Sent("admin", invalid, InvalidOf(tokens, out))
    /\ UNCHANGED <<firebase_app, schedVars, storeVars, tick, pruneHist, calls, recipients, calc, push, track, reg, app, auth>>

\* the handler's `if invalid_tokens:` delete and commit
RequestPrune ==
    /\ req.phase = "prune"
    /\ device_tokens' = DeleteTokens(device_tokens, req.invalid_tokens)
    /\ pruneHist' = Pruned(req.invalid_tokens)
    /\ req' = NoReq
    /\ UNCHANGED <<firebase_app, schedVars, is_active, last_reminder_at, tick,
                   nreq, calls, recipients, calc, push, track, reg, app, auth>>

\* ------------------------------------------------------------------ Spec
\* the device_tokens table the process starts on: every token registered, the
\* tokens dealt to the users in turn
InitialStore == {[token |-> tk, user_id |-> ((tk - 1) % MaxUsers) + 1] : tk \in Tokens}

\* the process with every scheduler enabled (the defaults of config.py)
Init ==
    /\ firebase_app \in BOOLEAN
    /\ enabled = [s \in Schedulers |-> TRUE]
    /\ _task = [s \in Schedulers |-> 0]
    /\ _stop_event = [s \in Schedulers |-> FALSE]
    /\ tasks = <<>>
    /\ stopCall = [s \in Schedulers |-> NoStop]
    /\ startNoop = [s \in Schedulers |-> "none"]
    /\ is_active \in [Users -> BOOLEAN]
    /\ device_tokens = InitialStore
    /\ last_reminder_at = [u \in Users |-> [k \in Kinds |-> 0]]
    /\ tick = NoTick
    /\ req = NoReq
    /\ nreq = 0
    /\ pruneHist = [list |-> {}, repeated |-> FALSE]
    /\ calls = NoCalls
    /\ recipients = <<>>
    /\ calc = NoCalc
    /\ push = NoPush
    /\ track = NoTrack
    /\ reg = NoReg
    /\ app = NoApp
    /\ auth = NoAuth

\* the steps of a tick in flight
TickStep ==
    \/ WaterSend
    \/ WaterLog
    \/ \E u \in Users : ProgressUser(u)
    \/ \E u \in Users : TrackingUser(u)
    \/ TickPrune

\* a start() call that launches a run loop
Launch(s) == enabled[s] /\ ~AlreadyRunning(s) /\ start(s) /\ UNCHANGED app

\* the schedulers once started, their ticks, and the request handlers that run
\* on worker threads beside them
Next ==
    \/ \E s \in Schedulers : Launch(s)
    \/ \E t \in 1..MaxTasks : BeginTick(t)
    \/ TickStep
    \/ \E u \in Users, tk \in Tokens : register_device_token(u, tk)
    \/ \E u \in Users, tk \in Tokens : unregister_device_token(u, tk)
    \/ \E u \in Users : send_water_reminder(u)
    \/ \E audience \in SUBSET Users : admin_send_notification(audience)
    \/ RequestPrune

Spec == Init /\ [][Next]_vars

\* the life cycle of the schedulers: start() and stop() called at any time the
\* event loop is free, the run loops and their ticks
LifeNext ==
    \/ \E s \in Schedulers : start(s) /\ UNCHANGED app
    \/ \E s \in Schedulers : stop(s) /\ UNCHANGED app
    \/ \E s \in Schedulers : stop_resume(s) /\ UNCHANGED app
    \/ \E t \in 1..MaxTasks : RunExit(t)
    \/ \E t \in 1..MaxTasks : BeginTick(t)
    \/ TickStep

\* any configuration of the enabled flags; the users all active and one device
\* registered
LifeInit ==
    /\ firebase_app \in BOOLEAN
    /\ enabled \in [Schedulers -> BOOLEAN]
    /\ _task = [s \in Schedulers |-> 0]
    /\ _stop_event = [s \in Schedulers |-> FALSE]
    /\ tasks = <<>>
    /\ stopCall = [s \in Schedulers |-> NoStop]
    /\ startNoop = [s \in Schedulers |-> "none"]
    /\ is_active = [u \in Users |-> TRUE]
    /\ device_tokens = {[token |-> 1, user_id |-> 1]}
    /\ last_reminder_at = [u \in Users |-> [k \in Kinds |-> 0]]
    /\ tick = NoTick
    /\ req = NoReq
    /\ nreq = 0
    /\ pruneHist = [list |-> {}, repeated |-> FALSE]
    /\ calls = NoCalls
    /\ recipients = <<>>
    /\ calc = NoCalc
    /\ push = NoPush
    /\ track = NoTrack
    /\ reg = NoReg
    /\ app = NoApp
    /\ auth = NoAuth

LifeSpec == LifeInit /\ [][LifeNext]_vars

\* the event loop runs every coroutine that is ready, and a tick body that has
\* begun goes on to its end
LifeFair ==
    /\ LifeSpec
    /\ WF_vars(TickStep)
    /\ \A t \in 1..MaxTasks : WF_vars(RunExit(t))
    /\ \A s \in Schedulers : WF_vars(stop_resume(s) /\ UNCHANGED app)

\* ---------------------------------------------------------------- dispatch
\* who hands a token list to send_push_notification
Callers == {"water_tick", "progress_tick", "tracking_tick", "send_water_reminder",
            "admin_send_notification"}

RECURSIVE Flatten(_)
Flatten(ss) == IF ss = <<>> THEN <<>> ELSE Head(ss) \o Flatten(Tail(ss))

\* the transport calls a caller makes for a token list: the admin send goes
\* through _chunk_tokens and sends chunk by chunk, every other caller passes its
\* whole list to one send_push_notification call
CallsOf(caller, tokens) ==
    IF caller = "admin_send_notification"
    THEN LET chunks == _chunk_tokens(tokens, ChunkSize)
         IN Flatten([i \in 1..Len(chunks) |-> TransportCalls(chunks[i])])
    ELSE TransportCalls(tokens)

\* one dispatch of the recipients by one caller, with the transport configured
Dispatch(caller) ==
    /\ firebase_app
    /\ calls' = [caller |-> caller, lists |-> CallsOf(caller, recipients)]
    /\ UNCHANGED <<firebase_app, schedVars, storeVars, tick, req, nreq, pruneHist,
                   recipients, calc, push, track, reg, app, auth>>

\* a recipient list of any length up to MaxRecipients, nothing dispatched yet
DispatchInit ==
    /\ firebase_app = TRUE
    /\ enabled = [s \in Schedulers |-> TRUE]
    /\ _task = [s \in Schedulers |-> 0]
    /\ _stop_event = [s \in Schedulers |-> FALSE]
    /\ tasks = <<>>
    /\ stopCall = [s \in Schedulers |-> NoStop]
    /\ startNoop = [s \in Schedulers |-> "none"]
    /\ is_active = [u \in Users |-> TRUE]
    /\ device_tokens = {}
    /\ last_reminder_at = [u \in Users |-> [k \in Kinds |-> 0]]
    /\ tick = NoTick
    /\ req = NoReq
    /\ nreq = 0
    /\ pruneHist = [list |-> {}, repeated |-> FALSE]
    /\ calls = NoCalls
    /\ \E n \in 0..MaxRecipients : recipients = [i \in 1..n |-> i]
    /\ calc = NoCalc
    /\ push = NoPush
    /\ track = NoTrack
    /\ reg = NoReg
    /\ app = NoApp
    /\ auth = NoAuth

DispatchNext == \E caller \in Callers : Dispatch(caller)

DispatchSpec == DispatchInit /\ [][DispatchNext]_vars

\* ---------------------------------------------------------------- claims
\* a task that can still run a tick: in its tick, or at the loop test with the
\* stop event clear
CanTick(t) == tasks[t].st = "tick" \/ (AtLoopTest(t) /\ LoopContinues(t))

StopReturned(s) == stopCall[s].st = "returned" /\ ~stopCall[s].restarted

Awaiting(s, t) == stopCall[s].st = "awaiting" /\ stopCall[s].task = t

\* C5: while a stop() call awaits a run loop, that loop begins no tick and is
\* not left waiting out its interval; a loop leaves only at its loop test, never
\* from inside a tick; and the stop() call returns.
C5_StopEndsLoop ==
    /\ [](\A s \in Schedulers : \A t \in 1..Len(tasks) :
            (Awaiting(s, t) /\ Alive(t)) => tasks[t].st # "waiting" /\ _stop_event[s])
    /\ [][\A t \in 1..Len(tasks) :
            /\ Awaiting(SchedOf(t), t) => tasks'[t].ticks = tasks[t].ticks
            /\ (tasks[t].st # "done" /\ tasks'[t].st = "done")
                    => AtLoopTest(t) /\ _stop_event[SchedOf(t)]]_vars
    /\ \A s \in Schedulers :
            (stopCall[s].st = "awaiting") ~> (stopCall[s].st = "returned")

C5_Witness ==
    \E s \in Schedulers :
        /\ stopCall[s].st = "returned"
        /\ ~stopCall[s].early
        /\ tasks[stopCall[s].task].st = "done"
        /\ tasks[stopCall[s].task].ticks = MaxTicks

\* C6: a stop() call made before the loop's first interval has elapsed leaves
\* the loop with at most one tick run; made before the loop first ran, it does
\* not raise; and once it has returned no tick of the scheduler is in flight.
C6_StopRightAfterStart ==
    \A s \in Schedulers :
        (stopCall[s].st # "none" /\ stopCall[s].early) =>
            /\ tasks[stopCall[s].task].ticks <= 1
            /\ stopCall[s].fresh => stopCall[s].st # "raised"
            /\ StopReturned(s) => (tick = NoTick \/ tick.sched # s)

C6_Witness ==
    \E s \in Schedulers :
        /\ stopCall[s].st = "returned"
        /\ stopCall[s].fresh
        /\ tasks[stopCall[s].task].st = "done"

\* C1: no run loop ever ends with an exception: whatever a tick's storage
\* read, target computation, due check or send does, the task is not failed.
C1_LoopSurvivesExceptions ==
    \A t \in 1..Len(tasks) : tasks[t].st # "failed"

\* C2: a progress or tracking tick ends its user loop only when at most the
\* user being processed is left: no user with tokens goes unprocessed because
\* another user's processing raised.
C2_OnlyFailingUserSkipped ==
    [][(tick.phase = "users" /\ tick' = NoTick) => Cardinality(tick.pending) <= 1]_vars

\* the tokens a step removes from the store
Removed == TokenSet(device_tokens) \ TokenSet(device_tokens')

TickPruneStep == tick.phase = "prune" /\ tick' = NoTick
RequestPruneStep == req.phase = "prune" /\ req' = NoReq

\* C7: a prune step of a tick or of a request removes only tokens the
\* dispatcher reported invalid to that tick or request, and outside the prune
\* steps a token leaves the store only through registration or unregistration.
C7_PruneOnlyReported ==
    [][/\ TickPruneStep => Removed \subseteq tick.reported
       /\ RequestPruneStep => Removed \subseteq req.reported
       /\ (~TickPruneStep /\ ~RequestPruneStep /\ nreq' = nreq) => Removed = {}]_vars

C7_Witness ==
    /\ pruneHist.list # {}
    /\ pruneHist.list \cap TokenSet(device_tokens) = {}
    /\ TokenSet(device_tokens) # {}
    /\ nreq = 0

\* C8: when a tick of any scheduler ends, no token the dispatcher reported
\* invalid during it is left in the store.
C8_ReportedGoneAtTickEnd ==
    [][(tick # NoTick /\ tick' = NoTick) => tick.reported \cap TokenSet(device_tokens') = {}]_vars

\* C9: every call a dispatch makes to the transport carries at most ChunkSize
\* tokens.
C9_CallsWithinCeiling ==
    \A i \in 1..Len(calls.lists) : Len(calls.lists[i]) <= ChunkSize

\* the list of a prune step, empty for any other step
PruneList ==
    IF RequestPruneStep THEN req.invalid_tokens
    ELSE IF TickPruneStep THEN tick.invalid_tokens
    ELSE {}

\* C10: a prune whose list is the list of the prune before it, with no
\* registration in between, deletes no row; and a prune of tokens that are all
\* absent deletes no row.
C10_PruneIdempotent ==
    [][/\ (PruneList # {} /\ PruneList = pruneHist.list) => device_tokens' = device_tokens
       /\ (PruneList \cap TokenSet(device_tokens) = {}) => (PruneList = {} \/ device_tokens' = device_tokens)]_vars

C10_Witness ==
    /\ pruneHist.repeated
    /\ Cardinality(pruneHist.list) = MaxTokens

\* the step in which a tick loads its tokens and goes on to send
TickLoads == tick = NoTick /\ tick' # NoTick

\* C11: the tokens a tick of any scheduler loads to send to are never none, and
\* each is a token whose owner is an active user when the tick loads it.
C11_TicksSendToActiveOwners ==
    [][TickLoads =>
        /\ tick'.tokens # <<>>
        /\ \A i \in 1..Len(tick'.tokens) :
              \E r \in device_tokens : r.token = tick'.tokens[i] /\ is_active[r.user_id]]_vars

\* ------------------------------------------------- the progress reminder
\* Floats are fixed point, Milli units to one: kilograms, centimetres, calories
\* and the numbers of answers are whole numbers of thousandths.
Milli == 1000

\* Python's None where a number is expected
None == 0 - 1000000000

\* float() of a numeral beyond the range of a double: inf
Inf == 1000000000

\* round(x) on a float: to the nearest whole number, a tie to the even one
round(x) ==
    LET q == x \div Milli
        r == x % Milli
    IN IF 2 * r < Milli THEN q
       ELSE IF 2 * r > Milli THEN q + 1
       ELSE IF q % 2 = 0 THEN q ELSE q + 1

Abs(x) == IF x < 0 THEN 0 - x ELSE x
Max(a, b) == IF a >= b THEN a ELSE b

\* an answer of the questionnaire: the number its text holds (None when it
\* holds none), the value of its selected option and the unit word its text
\* holds ("" when there is none)
NoAnswer == [present |-> FALSE, num |-> None, opt |-> "", text |-> ""]

\* measurement_utils._WEIGHT_UNIT_ALIASES
WeightUnitAliases ==
    [kg |-> {"kg", "kgs", "kilogram", "kilograms"},
     lb |-> {"lb", "lbs", "pound", "pounds"},
     oz |-> {"oz", "ounce", "ounces"},
     stone |-> {"stone", "stones", "st"}]

\* measurement_utils._map_unit on the weight table: the canonical unit of an
\* alias, "" for None
map_weight_unit(value) ==
    IF \E c \in DOMAIN WeightUnitAliases : value = c \/ value \in WeightUnitAliases[c]
    THEN CHOOSE c \in DOMAIN WeightUnitAliases : value = c \/ value \in WeightUnitAliases[c]
    ELSE ""

parse_numeric_value(answer) == answer.num

\* only the selected options are looked at
resolve_weight_unit(answer) == map_weight_unit(answer.opt)

\* the factors 0.45359237, 0.0283495 and 6.35029318 to four places
convert_weight_to_kg(value, unit) ==
    IF value < 0 THEN None
    ELSE IF value = Inf THEN Inf
    ELSE IF unit = "lb" THEN (value * 4536) \div 10000
    ELSE IF unit = "oz" THEN (value * 283) \div 10000
    ELSE IF unit = "stone" THEN (value * 6350) \div 1000
    ELSE value

weight_kg_from_answer(answer) ==
    LET raw_value == parse_numeric_value(answer)
    IN IF raw_value = None THEN None
       ELSE convert_weight_to_kg(raw_value, resolve_weight_unit(answer))

_goal_weight_from_answers(d) ==
    IF ~d.goal.present THEN None ELSE weight_kg_from_answer(d.goal)

\* the "current weight" answer, else the first answer typed "weight" that is
\* not a goal answer and parses
_current_weight_from_answers(d) ==
    LET parsed == IF d.cur.present THEN weight_kg_from_answer(d.cur) ELSE None
    IN IF parsed # None THEN parsed
       ELSE IF d.other.present THEN weight_kg_from_answer(d.other)
       ELSE None

\* the first selected option's value, else the first of the words lb, kg,
\* month, week, day in the answer's text
_resolve_unit(answer) == IF answer.opt # "" THEN answer.opt ELSE answer.text

DayIsNoUnit(unit) == FALSE

\* `"month" in unit`, `"day" in unit` on the units of the model
HasMonth(unit) == unit \in {"month", "months"}
HasDay(unit) == unit \in {"day", "days"}

\* what a function call comes to: a value, None, or an exception
Returns(v) == [st |-> "ok", v |-> v]
ReturnsNone == [st |-> "none", v |-> None]
Raises == [st |-> "raise", v |-> None]

\* round() of inf raises OverflowError
_goal_timeframe_days_from_answers(d) ==
    LET value == parse_numeric_value(d.time)
        unit == _resolve_unit(d.time)
    IN IF ~d.time.present THEN ReturnsNone
       ELSE IF value = None \/ value <= 0 THEN ReturnsNone
       ELSE IF value = Inf THEN Raises
       ELSE IF HasMonth(unit) THEN Returns(Max(round(value * 30), 1))
       ELSE IF HasDay(unit) THEN Returns(Max(round(value), 1))
       ELSE Returns(Max(round(value * 7), 1))

NoGenderOffset(gender) == 0

_gender_bmr_offset(gender) ==
    IF gender = "male" THEN 5 ELSE IF gender = "female" THEN 0 - 161 ELSE 0

_estimate_maintenance_calories(weight_kg, height_cm, age_years, gender) ==
    LET base == 10 * weight_kg + (625 * height_cm) \div 100 - 5 * age_years * Milli
        bmr == base + _gender_bmr_offset(gender) * Milli
    IN IF height_cm # None /\ age_years # None /\ bmr > 0
       THEN (bmr * 12) \div 10
       ELSE weight_kg * 30

\* steps * CALORIES_PER_STEP * (weight / REFERENCE_WEIGHT_KG), rounded
_todays_burned_calories(d, weight_kg) ==
    LET weight == Max(IF weight_kg = 0 THEN 70 * Milli ELSE weight_kg, Milli)
    IN round((d.steps * 4 * weight) \div 7000)

_todays_consumed_calories(d) == d.consumed

DEFAULT_BASE_CALORIES == 1200

AlwaysDeficit(delta, daily_delta) == 0 - daily_delta

\* `daily_delta if delta > 0 else -daily_delta`
SignedDelta(delta, daily_delta) == IF delta > 0 THEN daily_delta ELSE 0 - daily_delta

TargetUnclamped(target) == round(target)

\* `round(max(DEFAULT_BASE_CALORIES, target))`
ClampTarget(target) == round(Max(DEFAULT_BASE_CALORIES * Milli, target))

\* the three inputs are resolved before any is tested.  With a weight of inf
\* the arithmetic yields inf or nan and a round() raises.  Beside the pair the
\* function returns, the result keeps the locals it was computed from.
_calculate_target_calories(d) ==
    LET current_weight == IF d.log_kg # None THEN d.log_kg
                          ELSE _current_weight_from_answers(d)
        goal_weight == _goal_weight_from_answers(d)
        timeframe == _goal_timeframe_days_from_answers(d)
        timeframe_days == timeframe.v
        maintenance == _estimate_maintenance_calories(current_weight, d.height_cm,
                                                       d.age_years, d.gender)
        delta == goal_weight - current_weight
        daily_delta == (Abs(delta) * 7700) \div timeframe_days
        target == IF Abs(delta) < 10 \/ timeframe_days <= 0 THEN maintenance
                  ELSE maintenance + SignedDelta(delta, daily_delta)
    IN IF timeframe.st = "raise" THEN Raises
       ELSE IF current_weight = None \/ goal_weight = None \/ timeframe.st = "none"
            THEN ReturnsNone
       ELSE IF current_weight = Inf \/ goal_weight = Inf THEN Raises
       ELSE Returns([target_calories |-> ClampTarget(target),
                     burned_calories |-> _todays_burned_calories(d, current_weight),
                     current_weight |-> current_weight, goal_weight |-> goal_weight,
                     timeframe_days |-> timeframe_days, maintenance |-> maintenance,
                     target |-> target])

\* None when there is no target or nothing remains, else the reminder
_build_user_reminder(d) ==
    LET target_payload == _calculate_target_calories(d)
        daily_allowance == target_payload.v.target_calories + target_payload.v.burned_calories
        remaining == round(daily_allowance * Milli - _todays_consumed_calories(d))
    IN IF target_payload.st # "ok" THEN target_payload
       ELSE IF remaining <= 0 THEN ReturnsNone
       ELSE Returns([remaining_calories |-> remaining, target_calories |-> daily_allowance])

Answers(nums, opts, texts) ==
    {NoAnswer} \cup {[present |-> TRUE, num |-> n, opt |-> o, text |-> t] :
                        n \in nums, o \in opts, t \in texts}

\* the data of one user a progress tick reads: the latest weight log, the
\* answers to the current-weight, goal-weight and timeframe questions and
\* another answer typed "weight", the height, age and gender as resolved, and
\* today's steps and consumed calories
UserData ==
    [log_kg : {None, 80000},
     cur : Answers({None, 0 - 5000, 80000, Inf}, {"", "lbs"}, {""}),
     goal : Answers({None, 0 - 5000, 75000, 80005, Inf}, {"", "lbs"}, {""}),
     other : Answers({70000}, {""}, {""}),
     time : Answers({None, 0, 4000, Inf}, {"", "months"}, {"", "day"}),
     body : {[height_cm |-> None, age_years |-> None, gender |-> ""],
             [height_cm |-> 170000, age_years |-> 30, gender |-> "male"]},
     steps : {0, 5000},
     consumed : {0, 1199600, 1200000, 3000000}]

\* the record the functions above read
Flat(u) ==
    [log_kg |-> u.log_kg, cur |-> u.cur, goal |-> u.goal, other |-> u.other,
     time |-> u.time, height_cm |-> u.body.height_cm, age_years |-> u.body.age_years,
     gender |-> u.body.gender, steps |-> u.steps, consumed |-> u.consumed]

\* `reminder = _build_user_reminder(session, user_id)` for the user, and the
\* target_payload it was built on
BuildReminder ==
    /\ calc.phase = "data"
    /\ calc' = [phase |-> "built", d |-> calc.d, reminder |-> _build_user_reminder(calc.d),
                target |-> _calculate_target_calories(calc.d)]
    /\ UNCHANGED <<firebase_app, schedVars, storeVars, tick, req, nreq, pruneHist,
                   calls, recipients, push, track, reg, app, auth>>

TargetInit ==
    /\ firebase_app = TRUE
    /\ enabled = [s \in Schedulers |-> TRUE]
    /\ _task = [s \in Schedulers |-> 0]
    /\ _stop_event = [s \in Schedulers |-> FALSE]
    /\ tasks = <<>>
    /\ stopCall = [s \in Schedulers |-> NoStop]
    /\ startNoop = [s \in Schedulers |-> "none"]
    /\ is_active = [u \in Users |-> TRUE]
    /\ device_tokens = {}
    /\ last_reminder_at = [u \in Users |-> [k \in Kinds |-> 0]]
    /\ tick = NoTick
    /\ req = NoReq
    /\ nreq = 0
    /\ pruneHist = [list |-> {}, repeated |-> FALSE]
    /\ calls = NoCalls
    /\ recipients = <<>>
    /\ \E u \in UserData : calc = [phase |-> "data", d |-> Flat(u)]
    /\ push = NoPush
    /\ track = NoTrack
    /\ reg = NoReg
    /\ app = NoApp
    /\ auth = NoAuth

TargetNext == BuildReminder

TargetSpec == TargetInit /\ [][TargetNext]_vars

\* an answer that gives no weight: absent, without a number, or negative
NoWeightIn(answer) == ~answer.present \/ answer.num = None \/ answer.num < 0

\* the user's current weight, goal weight or timeframe cannot be resolved
Unresolved(d) ==
    \/ d.log_kg = None /\ NoWeightIn(d.cur) /\ NoWeightIn(d.other)
    \/ NoWeightIn(d.goal)
    \/ ~d.time.present \/ d.time.num = None \/ d.time.num <= 0

\* C12: for a user whose current weight, goal weight or timeframe cannot be
\* resolved, _build_user_reminder returns None: it neither raises nor gives a
\* reminder.
C12_UnresolvedGivesNoTarget ==
    (calc.phase = "built" /\ Unresolved(calc.d)) => calc.reminder.st = "none"

\* C13: for a user with a target, a reminder is built exactly when
\* (target + burned) - consumed is greater than 0.
C13_ReminderIffRemaining ==
    LET payload == _calculate_target_calories(calc.d)
    IN (calc.phase = "built" /\ payload.st = "ok") =>
          (calc.reminder.st = "ok" <=>
             (payload.v.target_calories + payload.v.burned_calories) * Milli
                 - calc.d.consumed > 0)

\* the tick's task is back at its wait
TickEndsInWait == tasks'[tick.task].st \in {"waiting", "woken"}

\* C14: with the transport unconfigured, a tick collects no invalid token and
\* no stamp, no step of a tick deletes a token or writes a reminder timestamp,
\* a step that calls the dispatcher for a user leaves the tick running with
\* that user done and the others still pending, and a tick that reaches its
\* end leaves the loop at its wait.
C14_UnconfiguredTransportIsSurvived ==
    /\ []((~firebase_app /\ tick # NoTick) =>
            tick.invalid_tokens = {} /\ tick.stamps = {} /\ tick.reported = {})
    /\ [][~firebase_app =>
            /\ nreq' = nreq => device_tokens' = device_tokens
            /\ last_reminder_at' = last_reminder_at
            /\ (tick # NoTick /\ tick' # NoTick /\ tick.phase = "users"
                    /\ tick'.attempts # tick.attempts) =>
                  /\ tasks' = tasks
                  /\ Cardinality(tick'.pending) = Cardinality(tick.pending) - 1
            /\ (tick # NoTick /\ tick.phase = "send" /\ tick' # tick) => tick' # NoTick
            /\ (tick # NoTick /\ tick.phase \in {"log", "prune"} /\ tick' = NoTick)
                  => TickEndsInWait]_vars

C14_Witness ==
    /\ ~firebase_app
    /\ tick # NoTick
    /\ tick.phase = "prune"
    /\ tick.sched = "tracking"
    /\ \A u \in Users : tick.attempts[<<u, "weight">>] = 1 /\ tick.attempts[<<u, "photo">>] = 1
    /\ tasks[tick.task].ticks = MaxTicks

\* --------------------------------------------- send_push_notification
MaxSendTokens == 3

\* str.lower() on the error codes and messages of the model
LowerCase ==
    [x \in {"INVALID-ARGUMENT", "UNAVAILABLE", "NOT_FOUND"} |->
        IF x = "INVALID-ARGUMENT" THEN "invalid-argument"
        ELSE IF x = "UNAVAILABLE" THEN "unavailable" ELSE "not_found"]
    @@ [x \in {"Requested entity was not found."} |-> "requested entity was not found."]
    @@ [x \in {"Auth error from APNS or Web Push Service"} |->
            "auth error from apns or web push service"]
    @@ [x \in {"Deadline exceeded"} |-> "deadline exceeded"]

lower(x) == IF x \in DOMAIN LowerCase THEN LowerCase[x] ELSE x

\* the invalid_codes and keywords of _should_invalidate_token
invalid_codes ==
    {"registration-token-not-registered", "messaging/registration-token-not-registered",
     "messaging/invalid-apns-credentials", "invalid-argument"}
keywords ==
    {"requested entity was not found", "notregistered", "auth error from apns",
     "invalid-apns-credentials"}

\* `keyword in normalized_message` on the messages of the model
KeywordIn(keyword, message) ==
    \/ keyword = "requested entity was not found"
          /\ message = "requested entity was not found."
    \/ keyword = "auth error from apns"
          /\ message = "auth error from apns or web push service"

ShouldInvalidateAnyFailure(error_code, error_message) == TRUE

_should_invalidate_token(error_code, error_message) ==
    LET normalized_code == lower(error_code)
        normalized_message == lower(error_message)
    IN IF normalized_code \in invalid_codes THEN TRUE
       ELSE \E keyword \in keywords : KeywordIn(keyword, normalized_message)

\* what the transport answers for one token: delivered, or an exception with
\* a code ("" for none) and a message
SendResponses ==
    {[success |-> TRUE, code |-> "", message |-> ""]} \cup
    [success : {FALSE},
     code : {"", "registration-token-not-registered", "INVALID-ARGUMENT", "UNAVAILABLE",
             "NOT_FOUND"},
     message : {"", "Requested entity was not found.",
                "Auth error from APNS or Web Push Service", "Deadline exceeded"}]

\* the loop over response.responses: the indices from idx on whose response
\* failed, in order
RECURSIVE Failed(_, _, _)
Failed(tokens, responses, idx) ==
    IF idx > Len(tokens) THEN <<>>
    ELSE IF responses[idx].success THEN Failed(tokens, responses, idx + 1)
    ELSE <<idx>> \o Failed(tokens, responses, idx + 1)

\* send_push_notification after messaging.send_each_for_multicast returned
\* `responses` for a non-empty `tokens`
send_push_result(tokens, responses) ==
    LET failed == Failed(tokens, responses, 1)
        invalid == SelectSeq(failed, LAMBDA idx :
                        _should_invalidate_token(responses[idx].code, responses[idx].message))
    IN [success |-> Cardinality({idx \in 1..Len(tokens) : responses[idx].success}),
        failure |-> Cardinality({idx \in 1..Len(tokens) : ~responses[idx].success}),
        invalid_tokens |-> [i \in 1..Len(invalid) |-> tokens[invalid[i]]],
        errors |-> [i \in 1..Len(failed) |->
                      [token |-> tokens[failed[i]], code |-> responses[failed[i]].code,
                       message |-> responses[failed[i]].message]]]

\* the outcome the ticks and handlers see for a token
OutcomeOf(response) ==
    IF response.success THEN "delivered"
    ELSE IF _should_invalidate_token(response.code, response.message) THEN "invalid"
    ELSE "transient"

\* the call returns its result
SendReturn ==
    /\ push.phase = "called"
    /\ push' = [push EXCEPT !.phase = "returned",
                            !.result = send_push_result(push.tokens, push.responses)]
    /\ UNCHANGED <<firebase_app, schedVars, storeVars, tick, req, nreq, pruneHist,
                   calls, recipients, calc, track, reg, app, auth>>

\* a call with one to MaxSendTokens stored tokens on a configured transport
SendInit ==
    /\ firebase_app = TRUE
    /\ enabled = [s \in Schedulers |-> TRUE]
    /\ _task = [s \in Schedulers |-> 0]
    /\ _stop_event = [s \in Schedulers |-> FALSE]
    /\ tasks = <<>>
    /\ stopCall = [s \in Schedulers |-> NoStop]
    /\ startNoop = [s \in Schedulers |-> "none"]
    /\ is_active = [u \in Users |-> TRUE]
    /\ last_reminder_at = [u \in Users |-> [k \in Kinds |-> 0]]
    /\ tick = NoTick
    /\ req = NoReq
    /\ nreq = 0
    /\ pruneHist = [list |-> {}, repeated |-> FALSE]
    /\ calls = NoCalls
    /\ recipients = <<>>
    /\ calc = NoCalc
    /\ track = NoTrack
    /\ reg = NoReg
    /\ app = NoApp
    /\ auth = NoAuth
    /\ \E n \in 1..MaxSendTokens :
         /\ device_tokens = {[token |-> tk, user_id |-> 1] : tk \in 1..n}
         /\ \E responses \in [1..n -> SendResponses] :
              push = [phase |-> "called", tokens |-> [i \in 1..n |-> i],
                      responses |-> responses, result |-> <<>>]

SendNext == SendReturn

SendSpec == SendInit /\ [][SendNext]_vars

\* ------------------------------------------------------------ C15
\* the answers of the model that the allow-list names: by code, whatever its
\* case, or by a keyword inside the message
AllowListed(response) ==
    \/ response.code \in {"registration-token-not-registered", "INVALID-ARGUMENT"}
    \/ response.message \in {"Requested entity was not found.",
                             "Auth error from APNS or Web Push Service"}

FailedAt(i) == ~push.responses[i].success

\* C15: a call with a non-empty token list on a configured transport returns
\* a result and leaves the token store as it was; success + failure is the
\* number of tokens, errors has one entry per failed token, and
\* invalid_tokens holds exactly the failed tokens whose code or message is on
\* the allow-list, so no delivered or transiently failed token is in it.
C15_SendReportsAndClassifies ==
    /\ firebase_app /\ push # NoPush /\ push.tokens # <<>>
    /\ device_tokens = {[token |-> push.tokens[i], user_id |-> 1] : i \in DOMAIN push.tokens}
    /\ push.phase = "returned" =>
         LET r == push.result
             n == Len(push.tokens)
         IN /\ r.success + r.failure = n
            /\ r.success = Cardinality({i \in 1..n : ~FailedAt(i)})
            /\ Len(r.errors) = r.failure
            /\ {err.token : err \in Range(r.errors)} = {push.tokens[i] : i \in {j \in 1..n : FailedAt(j)}}
            /\ \A i \in 1..n : FailedAt(i) =>
                 \E k \in DOMAIN r.errors :
                    r.errors[k] = [token |-> push.tokens[i], code |-> push.responses[i].code,
                                   message |-> push.responses[i].message]
            /\ Range(r.invalid_tokens) =
                 {push.tokens[i] : i \in {j \in 1..n : FailedAt(j) /\ AllowListed(push.responses[j])}}
            /\ Len(r.invalid_tokens) = Cardinality(Range(r.invalid_tokens))
            /\ \A i \in 1..n :
                 (~FailedAt(i) \/ ~AllowListed(push.responses[i]))
                     => push.tokens[i] \notin Range(r.invalid_tokens)

\* a returned call for three tokens: one delivered, one failed transiently,
\* one failed with a message of the allow-list
C15_Witness ==
    /\ push.phase = "returned"
    /\ Len(push.tokens) = MaxSendTokens
    /\ push.responses[1].success
    /\ push.responses[2] = [success |-> FALSE, code |-> "UNAVAILABLE",
                            message |-> "Deadline exceeded"]
    /\ push.responses[3] = [success |-> FALSE, code |-> "NOT_FOUND",
                            message |-> "Requested entity was not found."]
    /\ push.result.invalid_tokens = <<push.tokens[3]>>
    /\ push.result.success = 1 /\ push.result.failure = 2

\* ------------------------------------------------- tracking reminders
\* Datetimes are counted in half days from 0; a datetime's date() is its day.
\* Epoch is the first instant of the model's clock; last_reminder_at = 0 is
\* the column's NULL.
PerDay == 2
Epoch == 2
MaxNow == 31
MaxLogs == 1
MaxPasses == 3
REMINDER_INTERVAL_DAYS == 7

date(t) == t \div PerDay

DueWhateverTheStamp(last_log_at, reminder_at, now) ==
    last_log_at # None /\ date(now) - date(last_log_at) >= REMINDER_INTERVAL_DAYS

_is_reminder_due(last_log_at, reminder_at, now) ==
    IF last_log_at = None THEN FALSE
    ELSE IF date(now) - date(last_log_at) < REMINDER_INTERVAL_DAYS THEN FALSE
    ELSE IF reminder_at # 0 /\ reminder_at >= last_log_at
            /\ date(now) - date(reminder_at) < REMINDER_INTERVAL_DAYS THEN FALSE
    ELSE TRUE

\* _should_send_weight_reminder / _should_send_photo_reminder: the latest log
\* of the kind and the user's stamp of the kind
_should_send(u, k, now) == _is_reminder_due(track.log[u][k], last_reminder_at[u][k], now)

\* the orders in which `tokens_by_user.items()` can yield the users
Orders == {o \in [1..MaxUsers -> Users] : \A i, j \in 1..MaxUsers : i # j => o[i] # o[j]}
IndexOf(o, u) == CHOOSE i \in 1..MaxUsers : o[i] = u

\* the place of a user's check of a kind among the checks of one tick
StepOf(o, u, k) == 2 * IndexOf(o, u) - (IF k = "weight" THEN 1 ELSE 0)

\* the waits between two tick bodies, in half days: none (a tick right after a
\* stop() and start()), six days and seven days
Waits == {0, 12, 14}

\* One pass of TrackingReminderScheduler._run: the wait, then _send_reminders
\* at `now`.  track records the reminders the pass sent (sends), when each
\* user was last sent each kind (last_sent), and whether the body ran to its
\* end with no exception (clean).  The users come in order o; `done` checks are made before an
\* exception outside the per-send try (a query of the user loop) ends the
\* body, done = 2 * MaxUsers when none does; send_push_notification raises
\* for the checks in `raising` (none or one of them); commits tells whether
\* session.commit() is reached and succeeds.  The stamps are
\* assignments in the session: they reach the table with the commit only.
TrackTick ==
    \E wait \in Waits, o \in Orders, done \in 0..(2 * MaxUsers), commits \in BOOLEAN,
       raising \in {{}} \cup {{x} : x \in Users \X Kinds} :
        LET now == track.now + wait
            made(u, k) == StepOf(o, u, k) <= done
            due(u, k) == made(u, k) /\ _should_send(u, k, now)
            sends(u, k) == due(u, k) /\ <<u, k>> \notin raising
        IN /\ now <= MaxNow
           /\ track.passes < MaxPasses
           /\ commits => done = 2 * MaxUsers
           /\ track' = [track EXCEPT
                          !.now = now,
                          !.passes = @ + 1,
                          !.sends = {x \in Users \X Kinds : sends(x[1], x[2])},
                          !.last_sent = [x \in Users \X Kinds |->
                                           IF sends(x[1], x[2]) THEN now ELSE @[x]],
                          !.clean = commits /\ raising = {}]
           /\ last_reminder_at' =
                [u \in Users |-> [k \in Kinds |->
                    IF commits /\ sends(u, k) THEN now ELSE last_reminder_at[u][k]]]
           /\ UNCHANGED <<firebase_app, schedVars, is_active, device_tokens, tick, req,
                          nreq, pruneHist, calls, recipients, calc, push, reg, app, auth>>

\* a user logs a weight or uploads a progress photo, dated now
LogEntry(u, k) ==
    /\ track.logs < MaxLogs
    /\ track' = [track EXCEPT !.log[u][k] = track.now, !.logs = @ + 1]
    /\ UNCHANGED <<firebase_app, schedVars, storeVars, tick, req, nreq, pruneHist,
                   calls, recipients, calc, push, reg, app, auth>>

TrackInit ==
    /\ firebase_app = TRUE
    /\ enabled = [s \in Schedulers |-> TRUE]
    /\ _task = [s \in Schedulers |-> 0]
    /\ _stop_event = [s \in Schedulers |-> FALSE]
    /\ tasks = <<>>
    /\ stopCall = [s \in Schedulers |-> NoStop]
    /\ startNoop = [s \in Schedulers |-> "none"]
    /\ is_active = [u \in Users |-> TRUE]
    /\ device_tokens = {[token |-> u, user_id |-> u] : u \in Users}
    /\ last_reminder_at = [u \in Users |-> [k \in Kinds |-> 0]]
    /\ tick = NoTick
    /\ req = NoReq
    /\ nreq = 0
    /\ pruneHist = [list |-> {}, repeated |-> FALSE]
    /\ calls = NoCalls
    /\ recipients = <<>>
    /\ calc = NoCalc
    /\ push = NoPush
    /\ reg = NoReg
    /\ app = NoApp
    /\ auth = NoAuth
    /\ \E log \in [Users -> [Kinds -> {None, Epoch - 1}]] :
         track = [now |-> Epoch, log |-> log, logs |-> 0, passes |-> 0, sends |-> {},
                  last_sent |-> [x \in Users \X Kinds |-> None], clean |-> TRUE]

TrackNext ==
    \/ TrackTick
    \/ \E u \in Users, k \in Kinds : LogEntry(u, k)

TrackSpec == TrackInit /\ [][TrackNext]_vars

\* ------------------------------------------------------------ C16
\* a step that is one pass of the tracking loop
IsPass == track # NoTrack /\ track'.passes = track.passes + 1

\* whole calendar days between two datetimes
DaysBetween(earlier, later) == date(later) - date(earlier)

\* the condition of one kind, on that kind's log and stamp alone
KindIsDue(u, k, now) ==
    /\ track.log[u][k] # None
    /\ DaysBetween(track.log[u][k], now) >= REMINDER_INTERVAL_DAYS
    /\ last_reminder_at[u][k] # 0
          => DaysBetween(last_reminder_at[u][k], now) >= REMINDER_INTERVAL_DAYS

\* C16: a tracking tick sends a user a reminder of a kind only if the user has
\* a log of that kind, the latest one at least 7 calendar days before the
\* tick's now, and the stamp of that kind, if any, is at least 7 calendar days
\* old; each kind is decided on its own log and stamp: in a tick that meets
\* no exception the reminders sent are exactly those whose own condition holds.
C16_RemindedOnlyWhenDue ==
    [][IsPass =>
         \A u \in Users, k \in Kinds :
            /\ <<u, k>> \in track'.sends => KindIsDue(u, k, track'.now)
            /\ track'.clean => (<<u, k>> \in track'.sends <=> KindIsDue(u, k, track'.now))]_vars

\* a tick sent a user the weight reminder 13 half days (7 calendar days) after
\* the weight log and no photo reminder, the photo being 6 days old
C16_Witness ==
    /\ track # NoTrack
    /\ track.clean
    /\ \E u \in Users :
         /\ <<u, "weight">> \in track.sends
         /\ <<u, "photo">> \notin track.sends
         /\ track.log[u]["weight"] # None /\ track.now - track.log[u]["weight"] = 13
         /\ track.log[u]["photo"] # None /\ DaysBetween(track.log[u]["photo"], track.now) = 6
         /\ last_reminder_at[u]["weight"] = track.now

\* ------------------------------------------------------------ C17
\* C17: when a tracking tick has sent a user a reminder of a kind, the user's
\* stamp of that kind is the tick's now in the table afterwards, and the
\* reminder comes at least 7 days after the previous reminder of that kind
\* to that user.
C17_SentIsStampedAndSpaced ==
    [][IsPass =>
         \A u \in Users, k \in Kinds :
            <<u, k>> \in track'.sends =>
                /\ last_reminder_at'[u][k] = track'.now
                /\ track.last_sent[<<u, k>>] # None =>
                     DaysBetween(track.last_sent[<<u, k>>], track'.now) >= REMINDER_INTERVAL_DAYS]_vars

\* ------------------------------------------------------------ C18
\* a step that deletes token rows and is not part of a request
TickDeletes == Removed # {} /\ nreq' = nreq /\ ~RequestPruneStep

\* the users for whom the step made a dispatch call
Called == {u \in Users : \E r \in Reminders : tick'.attempts[<<u, r>>] # tick.attempts[<<u, r>>]}

\* C18: in a progress or tracking tick a user is the subject of at most one
\* dispatch call per reminder (progress, weight, photo); the call is made in
\* the user's own iteration of the loop, which begins with the target or due
\* computation and ends with the user done; the tick deletes tokens only in
\* its prune step, when every user's iteration is over, only tokens reported
\* to this tick, and the tick body ends with that step.
C18_OneSendThenPrune ==
    /\ [](tick # NoTick =>
            \A u \in Users, r \in Reminders :
               /\ tick.attempts[<<u, r>>] <= 1
               /\ tick.attempts[<<u, r>>] = 1 =>
                    /\ u \notin tick.pending
                    /\ tick.sched = (IF r = "progress" THEN "progress" ELSE "tracking"))
    /\ [][/\ (tick # NoTick /\ tick' # NoTick /\ tick'.attempts # tick.attempts) =>
                \E u \in tick.pending :
                    /\ Called = {u}
                    /\ tick'.pending = tick.pending \ {u}
                    /\ tick.phase = "users"
                    /\ Removed = {}
          /\ TickDeletes =>
                /\ tick # NoTick /\ tick.phase = "prune" /\ tick.pending = {}
                /\ Removed \subseteq tick.reported
                /\ tick' = NoTick]_vars

\* a progress tick reaches its prune with every user called once and a
\* reported token still in the store
C18_Witness ==
    /\ tick # NoTick
    /\ tick.phase = "prune"
    /\ tick.sched = "progress"
    /\ \A u \in Users : tick.attempts[<<u, "progress">>] = 1
    /\ tick.reported # {}
    /\ tick.reported \subseteq TokenSet(device_tokens)

\* ------------------------------------------- device-token registration
\* register_device_token is a `def` handler: each request runs on a worker
\* thread with its own session, so the query of one request and the commit of
\* another interleave.
MaxInFlight == 2
MaxRegistrations == 3

Platforms == {"ios", "android"}
Idle == [phase |-> "idle"]
NoRow == [id |-> 0]
NoneDone == [status |-> "none"]

\* `db.query(DeviceToken).filter(DeviceToken.token == body.token).first()`
first(rows, tk) ==
    IF \E r \in rows : r.token = tk THEN CHOOSE r \in rows : r.token = tk ELSE NoRow

\* the table's UniqueConstraint("token", name="uq_device_token") rejects the
\* INSERT of a token that a committed row holds
UniqueViolated(rows, tk) == \E r \in rows : r.token = tk

\* the UPDATE a commit flushes for a loaded row: the columns whose assigned
\* value differs from the value the session loaded, by primary key
Flush(rows, loaded, user, platform) ==
    {IF r.id # loaded.id THEN r
     ELSE [r EXCEPT !.user_id = IF user # loaded.user_id THEN user ELSE @,
                    !.platform = IF platform # loaded.platform THEN platform ELSE @]
        : r \in rows}

\* register_device_token up to its query
RegQuery(i, u, tk, pf) ==
    /\ reg.flight[i] = Idle
    /\ reg.count < MaxRegistrations
    /\ is_active[u]
    /\ reg' = [reg EXCEPT !.count = @ + 1,
                          !.flight[i] = [phase |-> "queried", user |-> u, token |-> tk,
                                         platform |-> pf,
                                         token_record |-> first(device_tokens, tk)]]
    /\ UNCHANGED <<firebase_app, schedVars, storeVars, tick, req, nreq, pruneHist,
                   calls, recipients, calc, push, track, app, auth>>

\* the rest of register_device_token: the loaded row is assigned to, or a new
\* row is added; db.commit(); an exception becomes a 500 response.  No row is
\* deleted in this specification, so a loaded row is still there.
RegCommit(i) ==
    /\ reg.flight[i] # Idle
    /\ LET f == reg.flight[i]
           exists == f.token_record # NoRow
           rejected == ~exists /\ UniqueViolated(device_tokens, f.token)
       IN /\ device_tokens' =
                IF exists THEN Flush(device_tokens, f.token_record, f.user, f.platform)
                ELSE IF rejected THEN device_tokens
                ELSE device_tokens \cup {[id |-> reg.next_id, token |-> f.token,
                                          user_id |-> f.user, platform |-> f.platform]}
          /\ reg' = [reg EXCEPT
                       !.flight[i] = Idle,
                       !.next_id = IF exists \/ rejected THEN @ ELSE @ + 1,
                       !.done = [status |-> IF rejected THEN "error" ELSE "ok",
                                 user |-> f.user, token |-> f.token, platform |-> f.platform]]
    /\ UNCHANGED <<firebase_app, schedVars, is_active, last_reminder_at, tick, req, nreq,
                   pruneHist, calls, recipients, calc, push, track, app, auth>>

RegInit ==
    /\ firebase_app = TRUE
    /\ enabled = [s \in Schedulers |-> TRUE]
    /\ _task = [s \in Schedulers |-> 0]
    /\ _stop_event = [s \in Schedulers |-> FALSE]
    /\ tasks = <<>>
    /\ stopCall = [s \in Schedulers |-> NoStop]
    /\ startNoop = [s \in Schedulers |-> "none"]
    /\ is_active = [u \in Users |-> TRUE]
    /\ last_reminder_at = [u \in Users |-> [k \in Kinds |-> 0]]
    /\ tick = NoTick
    /\ req = NoReq
    /\ nreq = 0
    /\ pruneHist = [list |-> {}, repeated |-> FALSE]
    /\ calls = NoCalls
    /\ recipients = <<>>
    /\ calc = NoCalc
    /\ push = NoPush
    /\ track = NoTrack
    /\ app = NoApp
    /\ auth = NoAuth
    /\ device_tokens \in {{}, {[id |-> 1, token |-> 1, user_id |-> 1, platform |-> "ios"]}}
    /\ reg = [flight |-> [i \in 1..MaxInFlight |-> Idle], count |-> 0, next_id |-> 2,
              done |-> NoneDone]

RegNext ==
    \/ \E i \in 1..MaxInFlight, u \in Users, tk \in Tokens, pf \in Platforms :
          RegQuery(i, u, tk, pf)
    \/ \E i \in 1..MaxInFlight : RegCommit(i)

RegSpec == RegInit /\ [][RegNext]_vars

\* ------------------------------------------------------------ C19
RowsOf(tk) == {r \in device_tokens : r.token = tk}

\* C19: whatever the interleaving of registrations, a token has at most one
\* row, and once a registration request is over the token's row belongs to
\* that request's user and carries that request's platform.
C19_TokenOnceAndLastOwner ==
    /\ \A tk \in Tokens : Cardinality(RowsOf(tk)) <= 1
    /\ reg.done # NoneDone =>
         \E r \in RowsOf(reg.done.token) :
            r.user_id = reg.done.user /\ r.platform = reg.done.platform

\* ------------------------------------------------ startup and shutdown
\* the schedulers main.py imports, in the order startup_event starts them and
\* shutdown_event stops them
Managed == <<"water", "progress">>

\* where a handler goes after its call for Managed[app.at] returned
Advance(then) ==
    IF app.at = Len(Managed) THEN [app EXCEPT !.phase = then, !.at = 1, !.awaiting = FALSE]
    ELSE [app EXCEPT !.at = @ + 1, !.awaiting = FALSE]

\* an exception leaves shutdown_event: the calls after it are not made
Abandon == [app EXCEPT !.phase = "failed", !.awaiting = FALSE]

\* startup_event after the migrations and the seed: `await x.start()` for the
\* next scheduler.  start() never suspends, so no run loop moves in between.
startup_event ==
    /\ app.phase = "starting"
    /\ start(Managed[app.at])
    /\ app' = [Advance("up") EXCEPT !.started = @ \cup {Managed[app.at]}]

\* shutdown_event: `await x.stop()` for the next scheduler, up to the point
\* where stop() returns, raises, or suspends on its task
shutdown_event ==
    /\ app.phase \in {"up", "stopping"}
    /\ ~app.awaiting
    /\ LET s == Managed[app.at]
           ends == IF _task[s] = 0 THEN "returned"
                   ELSE IF AwaitResumes(_task[s]) THEN AwaitEnds(_task[s])
                   ELSE "awaiting"
       IN /\ stop(s)
          /\ app' = IF ends = "returned" THEN Advance("down")
                    ELSE IF ends = "raised" THEN Abandon
                    ELSE [app EXCEPT !.phase = "stopping", !.awaiting = TRUE]

\* shutdown_event resumes when the task it awaits inside stop() is done
shutdown_resume ==
    /\ app.phase = "stopping"
    /\ app.awaiting
    /\ LET s == Managed[app.at]
       IN /\ stop_resume(s)
          /\ app' = IF AwaitEnds(stopCall[s].task) = "returned" THEN Advance("down")
                    ELSE Abandon

AppInit ==
    /\ firebase_app \in BOOLEAN
    /\ enabled \in [Schedulers -> BOOLEAN]
    /\ _task = [s \in Schedulers |-> 0]
    /\ _stop_event = [s \in Schedulers |-> FALSE]
    /\ tasks = <<>>
    /\ stopCall = [s \in Schedulers |-> NoStop]
    /\ startNoop = [s \in Schedulers |-> "none"]
    /\ is_active = [u \in Users |-> TRUE]
    /\ device_tokens = {[token |-> 1, user_id |-> 1]}
    /\ last_reminder_at = [u \in Users |-> [k \in Kinds |-> 0]]
    /\ tick = NoTick
    /\ req = NoReq
    /\ nreq = 0
    /\ pruneHist = [list |-> {}, repeated |-> FALSE]
    /\ calls = NoCalls
    /\ recipients = <<>>
    /\ calc = NoCalc
    /\ push = NoPush
    /\ track = NoTrack
    /\ reg = NoReg
    /\ app = [phase |-> "starting", at |-> 1, awaiting |-> FALSE, started |-> {}]
    /\ auth = NoAuth

\* the handlers of main.py, the run loops they start and the ticks of those
AppNext ==
    \/ startup_event
    \/ shutdown_event
    \/ shutdown_resume
    \/ \E t \in 1..MaxTasks : RunExit(t)
    \/ \E t \in 1..MaxTasks : app.phase # "starting" /\ BeginTick(t)
    \/ WaterSend
    \/ WaterLog
    \/ \E u \in Users : ProgressUser(u)
    \/ TickPrune

AppSpec == AppInit /\ [][AppNext]_vars

\* ------------------------------------------------------------ C20
\* C20: once startup is over every scheduler instance has been started, and
\* once shutdown is over, whether it ended normally or by an exception, no
\* run loop is left alive.
C20_AllStartedAllStopped ==
    /\ app.phase # "starting" => app.started = Schedulers
    /\ app.phase \in {"down", "failed"} => \A t \in 1..Len(tasks) : ~Alive(t)

\* ------------------------------------------------------------ C21
\* the calculator returned a target for the user
HasTarget == calc.phase = "built" /\ calc.target.st = "ok"

\* C21: a returned target_calories is at least 1200; it is 1200 when the
\* computed target is below 1200, and the computed target rounded, with no
\* cap, otherwise.
C21_TargetFloorNoCap ==
    HasTarget =>
        /\ calc.target.v.target_calories >= 1200
        /\ calc.target.v.target < 1200 * Milli => calc.target.v.target_calories = 1200
        /\ calc.target.v.target >= 1200 * Milli =>
              calc.target.v.target_calories = round(calc.target.v.target)

\* 80 kg to 75 kg in 28 days without height or age: 2400 - 1375 = 1025, raised
\* to 1200
C21_Witness ==
    /\ HasTarget
    /\ calc.d.log_kg = 80000
    /\ calc.target.v.goal_weight = 75000
    /\ calc.target.v.timeframe_days = 28
    /\ calc.d.height_cm = None
    /\ calc.target.v.maintenance = 2400 * Milli
    /\ calc.target.v.target = 1025 * Milli
    /\ calc.target.v.target_calories = 1200

\* ------------------------------------------------------------ C22
\* C22: with delta = goal - current, the computed target is maintenance when
\* |delta| < 0.01 kg, maintenance + |delta| * 7700 / timeframe_days for a goal
\* above the current weight and maintenance - |delta| * 7700 / timeframe_days
\* for a goal below it; the returned value is that target floored at 1200 and
\* rounded to a whole calorie, so a gain goal is never below maintenance and a
\* loss goal never above max(maintenance, 1200).
C22_TargetFollowsDelta ==
    HasTarget =>
        LET t == calc.target.v
            delta == t.goal_weight - t.current_weight
            daily == (Abs(delta) * 7700) \div t.timeframe_days
            floored == Max(1200 * Milli, t.target)
        IN /\ Abs(delta) < 10 => t.target = t.maintenance
           /\ delta >= 10 => t.target = t.maintenance + daily
           /\ delta <= 0 - 10 => t.target = t.maintenance - daily
           /\ t.target_calories = round(floored)
           /\ delta > 0 => floored >= t.maintenance /\ t.target_calories >= round(t.maintenance)
           /\ delta < 0 =>
                 /\ floored <= Max(t.maintenance, 1200 * Milli)
                 /\ t.target_calories <= round(Max(t.maintenance, 1200 * Milli))

\* a goal 5 grams above the current weight: the target is the maintenance
C22_Witness ==
    /\ HasTarget
    /\ calc.target.v.goal_weight - calc.target.v.current_weight = 5
    /\ calc.target.v.target = calc.target.v.maintenance
    /\ calc.target.v.target_calories = 2400

\* ------------------------------------------------------------ C23
\* the weight answers measurement_utils is applied to: a number in the text or
\* none, a selected option tagged with an alias, with another word or absent,
\* and a unit word in the free text or none
AllWeightAliases ==
    (DOMAIN WeightUnitAliases) \cup UNION {WeightUnitAliases[c] : c \in DOMAIN WeightUnitAliases}

WeightAnswers ==
    {[present |-> TRUE, num |-> n, opt |-> o, text |-> t] :
        n \in {None, 0 - 5000, 0, 160000},
        o \in AllWeightAliases \cup {"", "imperial"},
        t \in {"", "lbs", "kg", "st"}}

\* `weight_kg_from_answer(answer)`
WeighAnswer ==
    /\ calc.phase = "answer"
    /\ calc' = [phase |-> "weighed", a |-> calc.a, kg |-> weight_kg_from_answer(calc.a)]
    /\ UNCHANGED <<firebase_app, schedVars, storeVars, tick, req, nreq, pruneHist,
                   calls, recipients, push, track, reg, app, auth>>

WeightInit ==
    /\ firebase_app = TRUE
    /\ enabled = [s \in Schedulers |-> TRUE]
    /\ _task = [s \in Schedulers |-> 0]
    /\ _stop_event = [s \in Schedulers |-> FALSE]
    /\ tasks = <<>>
    /\ stopCall = [s \in Schedulers |-> NoStop]
    /\ startNoop = [s \in Schedulers |-> "none"]
    /\ is_active = [u \in Users |-> TRUE]
    /\ device_tokens = {}
    /\ last_reminder_at = [u \in Users |-> [k \in Kinds |-> 0]]
    /\ tick = NoTick
    /\ req = NoReq
    /\ nreq = 0
    /\ pruneHist = [list |-> {}, repeated |-> FALSE]
    /\ calls = NoCalls
    /\ recipients = <<>>
    /\ \E a \in WeightAnswers : calc = [phase |-> "answer", a |-> a]
    /\ push = NoPush
    /\ track = NoTrack
    /\ reg = NoReg
    /\ app = NoApp
    /\ auth = NoAuth

WeightNext == WeighAnswer

WeightSpec == WeightInit /\ [][WeightNext]_vars

\* the unit an answer carries: the one its option names, else the one its
\* text names ("" when neither names one, or when they name different ones)
CarriedUnit(answer) ==
    LET o == map_weight_unit(answer.opt)
        t == map_weight_unit(answer.text)
    IN IF o # "" /\ t # "" /\ o # t THEN "" ELSE IF o # "" THEN o ELSE t

\* C23: a weight answer that carries an alias of the weight alias table in its
\* free text or in its selected option is converted to kilograms with the
\* factor of that alias's unit; "160 lbs" with no selected option gives
\* 72.575 kg within 0.01, not 160 kg.
C23_AliasConverted ==
    (calc.phase = "weighed" /\ calc.a.num # None /\ calc.a.num >= 0 /\ CarriedUnit(calc.a) # "") =>
        /\ calc.kg = convert_weight_to_kg(calc.a.num, CarriedUnit(calc.a))
        /\ (calc.a.num = 160000 /\ CarriedUnit(calc.a) = "lb") => Abs(calc.kg - 72575) <= 10

\* ------------------------------------------------------------ C24
\* the timeframe answers: a number in the text (none, negative, zero, a
\* fraction, a whole number, one too large for a float), the value of the
\* selected option, and the first unit word found in the text
TimeAnswers ==
    {[present |-> p, num |-> n, opt |-> o, text |-> t] :
        p \in BOOLEAN,
        n \in {None, 0 - 2000, 0, 10, 500, 1500, 2500, 4000, Inf},
        o \in {"", "day", "days", "weeks", "month", "months", "yes"},
        t \in {"", "day", "week", "month", "lb"}}

\* `_goal_timeframe_days_from_answers(answers)`
ResolveTimeframe ==
    /\ calc.phase = "timeanswer"
    /\ calc' = [phase |-> "timed", a |-> calc.a,
                days |-> _goal_timeframe_days_from_answers([time |-> calc.a])]
    /\ UNCHANGED <<firebase_app, schedVars, storeVars, tick, req, nreq, pruneHist,
                   calls, recipients, push, track, reg, app, auth>>

TimeInit ==
    /\ firebase_app = TRUE
    /\ enabled = [s \in Schedulers |-> TRUE]
    /\ _task = [s \in Schedulers |-> 0]
    /\ _stop_event = [s \in Schedulers |-> FALSE]
    /\ tasks = <<>>
    /\ stopCall = [s \in Schedulers |-> NoStop]
    /\ startNoop = [s \in Schedulers |-> "none"]
    /\ is_active = [u \in Users |-> TRUE]
    /\ device_tokens = {}
    /\ last_reminder_at = [u \in Users |-> [k \in Kinds |-> 0]]
    /\ tick = NoTick
    /\ req = NoReq
    /\ nreq = 0
    /\ pruneHist = [list |-> {}, repeated |-> FALSE]
    /\ calls = NoCalls
    /\ recipients = <<>>
    /\ \E a \in TimeAnswers : calc = [phase |-> "timeanswer", a |-> a]
    /\ push = NoPush
    /\ track = NoTrack
    /\ reg = NoReg
    /\ app = NoApp
    /\ auth = NoAuth

TimeNext == ResolveTimeframe

TimeSpec == TimeInit /\ [][TimeNext]_vars

\* the unit the answer resolves to, as the claim reads it
ResolvedUnit(answer) == IF answer.opt # "" THEN answer.opt ELSE answer.text

\* round half to even of a number of thousandths, written out
NearestInt(x) ==
    LET lo == x \div 1000
        rest == x % 1000
    IN IF rest < 500 THEN lo ELSE IF rest > 500 THEN lo + 1
       ELSE IF lo % 2 = 0 THEN lo ELSE lo + 1

\* C24: the timeframe in days is the number x 1 for a unit of days, x 30 for a
\* unit of months and x 7 for a unit of weeks or no unit, rounded to a whole
\* number; a returned timeframe is an integer of at least 1, and a missing or
\* non-positive number gives no timeframe.
C24_TimeframeDays ==
    calc.phase = "timed" =>
        LET a == calc.a
            unit == ResolvedUnit(a)
            factor == IF unit \in {"day", "days"} THEN 1
                      ELSE IF unit \in {"month", "months"} THEN 30 ELSE 7
        IN /\ calc.days.st = "ok" => calc.days.v \in Nat /\ calc.days.v >= 1
           /\ (~a.present \/ a.num = None \/ a.num <= 0) => calc.days.st = "none"
           /\ (calc.days.st = "ok" /\ unit \in {"", "day", "days", "week", "weeks", "month", "months"}) =>
                 calc.days.v = Max(NearestInt(a.num * factor), 1)

\* 0.01 with the option "days": round(0.01) = 0 is raised to 1 day
C24_Witness ==
    /\ calc.phase = "timed"
    /\ calc.a.num = 10
    /\ calc.a.opt = "days"
    /\ calc.days = Returns(1)

\* ------------------------------------------------------------ C25
\* the current weight from the rows: weight logs with distinct logged_at, and
\* the answers most recent first, each with the phrases its question text
\* contains, the question's answer_type and what weight_kg_from_answer gives
\* for it (None, or a weight that tells the answers apart)
MaxAnswers == 2
MaxWeightLogs == 2

Phrases == {"current weight", "goal weight", "target weight"}

AnswerRows(i) ==
    [question : SUBSET Phrases, answer_type : {"weight", "text"},
     kg : {None, 60000 + 1000 * i}]

AnswerLists ==
    UNION {{a \in [1..n -> UNION {AnswerRows(i) : i \in 1..MaxAnswers}] :
               \A i \in 1..n : a[i] \in AnswerRows(i)} : n \in 0..MaxAnswers}

WeightLogSets ==
    {logs \in SUBSET [logged_at : 1..MaxWeightLogs, weight_kg : {70000, 90000}] :
        \A l, m \in logs : l.logged_at = m.logged_at => l = m}

\* `order_by(WeightLog.logged_at.desc()).first()`, `log.weight_kg if log else None`
_latest_weight_kg(logs) ==
    IF logs = {} THEN None
    ELSE (CHOOSE l \in logs : \A m \in logs : m.logged_at <= l.logged_at).weight_kg

\* `any(keyword in normalized for keyword in keywords)`
_question_contains(question, words) == question \cap words # {}

\* the index of the first answer whose question contains an include keyword
\* and no exclude keyword, 0 for None
_find_answer_by_keywords(answers, include, exclude) ==
    LET found == {i \in 1..Len(answers) :
                     /\ _question_contains(answers[i].question, include)
                     /\ ~_question_contains(answers[i].question, exclude)}
    IN IF found = {} THEN 0 ELSE CHOOSE i \in found : \A j \in found : i <= j

\* _current_weight_from_answers on the list of answers
_current_weight_from_answer_list(answers) ==
    LET answer == _find_answer_by_keywords(answers, {"current weight"}, {})
        weight_answers == {i \in 1..Len(answers) :
                              /\ answers[i].answer_type = "weight"
                              /\ ~_question_contains(answers[i].question,
                                                     {"goal weight", "target weight"})
                              /\ answers[i].kg # None}
    IN IF answer # 0 /\ answers[answer].kg # None THEN answers[answer].kg
       ELSE IF weight_answers = {} THEN None
       ELSE answers[CHOOSE i \in weight_answers : \A j \in weight_answers : i <= j].kg

\* lines 128-132 of _calculate_target_calories
ResolveCurrentWeight ==
    /\ calc.phase = "rows"
    /\ LET current_weight == _latest_weight_kg(calc.logs)
       IN calc' = [phase |-> "current", logs |-> calc.logs, answers |-> calc.answers,
                   current_weight |-> IF current_weight = None
                                      THEN _current_weight_from_answer_list(calc.answers)
                                      ELSE current_weight]
    /\ UNCHANGED <<firebase_app, schedVars, storeVars, tick, req, nreq, pruneHist,
                   calls, recipients, push, track, reg, app, auth>>

CurrentInit ==
    /\ firebase_app = TRUE
    /\ enabled = [s \in Schedulers |-> TRUE]
    /\ _task = [s \in Schedulers |-> 0]
    /\ _stop_event = [s \in Schedulers |-> FALSE]
    /\ tasks = <<>>
    /\ stopCall = [s \in Schedulers |-> NoStop]
    /\ startNoop = [s \in Schedulers |-> "none"]
    /\ is_active = [u \in Users |-> TRUE]
    /\ device_tokens = {}
    /\ last_reminder_at = [u \in Users |-> [k \in Kinds |-> 0]]
    /\ tick = NoTick
    /\ req = NoReq
    /\ nreq = 0
    /\ pruneHist = [list |-> {}, repeated |-> FALSE]
    /\ calls = NoCalls
    /\ recipients = <<>>
    /\ \E logs \in WeightLogSets, answers \in AnswerLists :
          calc = [phase |-> "rows", logs |-> logs, answers |-> answers]
    /\ push = NoPush
    /\ track = NoTrack
    /\ reg = NoReg
    /\ app = NoApp
    /\ auth = NoAuth

CurrentNext == ResolveCurrentWeight

CurrentSpec == CurrentInit /\ [][CurrentNext]_vars

\* C25: with any weight log the current weight is the weight_kg of the log
\* with the greatest logged_at; without one it comes from an answer, and never
\* from the answer to a goal-weight or target-weight question.
C25_LogElseNonGoalAnswer ==
    calc.phase = "current" =>
        /\ \A l \in calc.logs :
              (\A m \in calc.logs : m.logged_at <= l.logged_at) =>
                  calc.current_weight = l.weight_kg
        /\ (calc.logs = {} /\ calc.current_weight # None) =>
              \E i \in 1..Len(calc.answers) :
                  /\ calc.answers[i].kg = calc.current_weight
                  /\ calc.answers[i].question \cap {"goal weight", "target weight"} = {}

\* ------------------------------------------------------------ C26
\* the bodies _estimate_maintenance_calories is called with: a weight in kg,
\* a height in cm or None, an age in years or None, a gender or none
Bodies ==
    [weight_kg : {0, 30000, 70000, 80000},
     height_cm : {None, 0, 50000, 175000},
     age_years : {None, 0, 30, 120},
     gender : {"", "male", "female", "unknown"}]

\* `_estimate_maintenance_calories(weight_kg=..., height_cm=..., age_years=..., gender=...)`
EstimateMaintenance ==
    /\ calc.phase = "body"
    /\ calc' = [phase |-> "estimated", b |-> calc.b,
                maintenance |-> _estimate_maintenance_calories(
                    calc.b.weight_kg, calc.b.height_cm, calc.b.age_years, calc.b.gender)]
    /\ UNCHANGED <<firebase_app, schedVars, storeVars, tick, req, nreq, pruneHist,
                   calls, recipients, push, track, reg, app, auth>>

MaintenanceInit ==
    /\ firebase_app = TRUE
    /\ enabled = [s \in Schedulers |-> TRUE]
    /\ _task = [s \in Schedulers |-> 0]
    /\ _stop_event = [s \in Schedulers |-> FALSE]
    /\ tasks = <<>>
    /\ stopCall = [s \in Schedulers |-> NoStop]
    /\ startNoop = [s \in Schedulers |-> "none"]
    /\ is_active = [u \in Users |-> TRUE]
    /\ device_tokens = {}
    /\ last_reminder_at = [u \in Users |-> [k \in Kinds |-> 0]]
    /\ tick = NoTick
    /\ req = NoReq
    /\ nreq = 0
    /\ pruneHist = [list |-> {}, repeated |-> FALSE]
    /\ calls = NoCalls
    /\ recipients = <<>>
    /\ \E b \in Bodies : calc = [phase |-> "body", b |-> b]
    /\ push = NoPush
    /\ track = NoTrack
    /\ reg = NoReg
    /\ app = NoApp
    /\ auth = NoAuth

MaintenanceNext == EstimateMaintenance

MaintenanceSpec == MaintenanceInit /\ [][MaintenanceNext]_vars

\* BMR in thousandths of a calorie: 10 w + 6.25 h - 5 a + offset
BmrOf(b) ==
    10 * b.weight_kg + 6 * b.height_cm + b.height_cm \div 4 - 5000 * b.age_years
        + (IF b.gender = "male" THEN 5000 ELSE IF b.gender = "female" THEN 0 - 161000 ELSE 0)

\* C26: maintenance is 1.2 x BMR, BMR = 10 weight + 6.25 height - 5 age +
\* offset (male +5, female -161, otherwise 0), when height and age are both
\* resolved and BMR > 0; in every other case it is weight x 30.
C26_MaintenanceRule ==
    calc.phase = "estimated" =>
        LET b == calc.b
            resolved == b.height_cm # None /\ b.age_years # None
        IN /\ (resolved /\ BmrOf(b) > 0) => 5 * calc.maintenance = 6 * BmrOf(b)
           /\ ~(resolved /\ BmrOf(b) > 0) => calc.maintenance = 30 * b.weight_kg

\* 70 kg, 175 cm, 30 years, male: BMR 1648.75, maintenance 1978.5
C26_Witness ==
    /\ calc.phase = "estimated"
    /\ calc.b = [weight_kg |-> 70000, height_cm |-> 175000, age_years |-> 30, gender |-> "male"]
    /\ BmrOf(calc.b) = 1648750
    /\ calc.maintenance = 1978500

\* ------------------------------------------------------------ C27
\* C27: whatever the interleaving of start() and stop() calls on a scheduler,
\* at most one of its run-loop tasks is alive and an alive run-loop task is
\* the one self._task references; a start() between the end of the loop task
\* and the resumption of the stop() that awaits it leaves no untracked loop.
C27_OneTrackedLoop ==
    \A s \in Schedulers :
        /\ Cardinality(AliveTasks(s)) <= 1
        /\ \A t \in AliveTasks(s) : _task[s] = t

\* ------------------------------------------------------------ C28
\* C28: stop() returns normally and leaves the scheduler not running, with
\* self._task cleared, also when the run-loop task had ended because a tick
\* raised; stop() on a scheduler that was never started returns at once and
\* changes nothing.
C28_StopReturnsAfterFailure ==
    /\ [](\A s \in Schedulers :
            /\ stopCall[s].st # "raised"
            /\ StopReturned(s) => _task[s] = 0)
    /\ [][\A s \in Schedulers :
            (_task[s] = 0 /\ stop(s)) => UNCHANGED <<schedVars, storeVars>>]_vars

\* ------------------------------------------------------------ C29
\* C29: a registration made through the registration endpoint after a progress
\* or tracking tick loaded its token rows and before the tick's prune is still
\* in the store after the tick: the prune of a tick deletes only registrations
\* that were among the rows the tick loaded and sent to.
C29_PruneSparesLaterRegistrations ==
    [][(TickPruneStep /\ tick.sched \in {"progress", "tracking"}) =>
          \A r \in device_tokens :
              r.token \notin Range(tick.tokens_by_user[r.user_id]) => r \in device_tokens']_vars

\* ------------------------------------------------------------ sessions
\* uuid4 values drawn so far are 1..auth.uuids; each draw is a new value
MaxUuids == 3

NoLast == [op |-> "none"]

\* the claims of a JWT: create_access_token / create_refresh_token are called
\* with {"sub": user.email, "jti": jti}
AccessToken(sub, jti) == [type |-> "access", sub |-> sub, jti |-> jti]
RefreshToken(sub, jti) == [type |-> "refresh", sub |-> sub, jti |-> jti]

\* `db.query(UserSession).filter(UserSession.jti == jti, UserSession.is_active == True).first()`
ActiveSessions(jti) ==
    {i \in 1..Len(auth.sessions) : auth.sessions[i].jti = jti /\ auth.sessions[i].is_active}

\* auth_middleware._get_auth_context: the status it ends with; `expired` says
\* that jwt.decode raised
_get_auth_context(token, expired) ==
    IF expired \/ token.type # "access" THEN "401"
    ELSE IF ActiveSessions(token.jti) = {} THEN "401"
    ELSE IF ~is_active[token.sub] THEN "404"
    ELSE "200"

\* the checks of refresh_access_token before it issues tokens
RefreshStatus(token, expired) ==
    IF expired \/ token.type # "refresh" THEN "401"
    ELSE IF ActiveSessions(token.jti) = {} THEN "401"
    ELSE IF ~is_active[token.sub] THEN "404"
    ELSE "200"

AuthUnchanged ==
    UNCHANGED <<firebase_app, schedVars, storeVars, tick, req, nreq, pruneHist,
                calls, recipients, calc, push, track, reg, app>>

\* POST /auth/otp/verify with the user's OTP: a new session row with a new jti
verify_otp(u) ==
    /\ auth # NoAuth
    /\ is_active[u]
    /\ auth.uuids < MaxUuids
    /\ LET jti == auth.uuids + 1
       IN auth' = [auth EXCEPT
                     !.uuids = jti,
                     !.sessions = Append(@, [user_id |-> u, jti |-> jti, is_active |-> TRUE]),
                     !.tokens = @ \cup {AccessToken(u, jti), RefreshToken(u, jti)},
                     !.last = [op |-> "verify_otp", token |-> AccessToken(u, jti),
                               status |-> "200"]]
    /\ AuthUnchanged

SessionReactivated(row, jti) == [row EXCEPT !.is_active = TRUE]

\* google_callback on the user's oldest session row: the row gets the new jti
\* and is active again
SessionReused(row, jti) == [row EXCEPT !.jti = jti, !.is_active = TRUE]

\* GET /auth/google/callback: the user's session row with the lowest id is
\* reused, or a row is added
google_callback(u) ==
    /\ auth # NoAuth
    /\ auth.uuids < MaxUuids
    /\ LET jti == auth.uuids + 1
           own == {i \in 1..Len(auth.sessions) : auth.sessions[i].user_id = u}
           session_record == IF own = {} THEN 0 ELSE CHOOSE i \in own : \A j \in own : i <= j
       IN auth' = [auth EXCEPT
                     !.uuids = jti,
                     !.sessions = IF session_record # 0
                                  THEN [@ EXCEPT ![session_record] = SessionReused(@, jti)]
                                  ELSE Append(@, [user_id |-> u, jti |-> jti, is_active |-> TRUE]),
                     !.tokens = @ \cup {AccessToken(u, jti)},
                     !.last = [op |-> "google_callback", token |-> AccessToken(u, jti),
                               status |-> "200"]]
    /\ AuthUnchanged

\* POST /auth/refresh: new tokens with the jti of the refresh token
refresh_access_token(token, expired) ==
    /\ auth # NoAuth
    /\ token \in auth.tokens
    /\ LET st == RefreshStatus(token, expired)
       IN auth' = [auth EXCEPT
                     !.tokens = IF st = "200"
                                THEN @ \cup {AccessToken(token.sub, token.jti),
                                             RefreshToken(token.sub, token.jti)}
                                ELSE @,
                     !.last = [op |-> "refresh", token |-> token, status |-> st]]
    /\ AuthUnchanged

\* POST /auth/logout: the session of the bearer token is revoked
logout_user(token, expired) ==
    /\ auth # NoAuth
    /\ token \in auth.tokens
    /\ LET st == _get_auth_context(token, expired)
       IN auth' = [auth EXCEPT
                     !.sessions = IF st = "200"
                                  THEN [i \in 1..Len(@) |->
                                          IF i \in ActiveSessions(token.jti)
                                          THEN [@[i] EXCEPT !.is_active = FALSE] ELSE @[i]]
                                  ELSE @,
                     !.logged_out = IF st = "200" THEN @ \cup {token.jti} ELSE @,
                     !.last = [op |-> "logout", token |-> token, status |-> st]]
    /\ AuthUnchanged

\* any endpoint behind get_current_user / get_current_session
authenticated_request(token, expired) ==
    /\ auth # NoAuth
    /\ token \in auth.tokens
    /\ auth' = [auth EXCEPT !.last = [op |-> "request", token |-> token,
                                      status |-> _get_auth_context(token, expired)]]
    /\ AuthUnchanged

AuthInit ==
    /\ firebase_app = TRUE
    /\ enabled = [s \in Schedulers |-> TRUE]
    /\ _task = [s \in Schedulers |-> 0]
    /\ _stop_event = [s \in Schedulers |-> FALSE]
    /\ tasks = <<>>
    /\ stopCall = [s \in Schedulers |-> NoStop]
    /\ startNoop = [s \in Schedulers |-> "none"]
    /\ is_active \in [Users -> BOOLEAN]
    /\ device_tokens = {}
    /\ last_reminder_at = [u \in Users |-> [k \in Kinds |-> 0]]
    /\ tick = NoTick
    /\ req = NoReq
    /\ nreq = 0
    /\ pruneHist = [list |-> {}, repeated |-> FALSE]
    /\ calls = NoCalls
    /\ recipients = <<>>
    /\ calc = NoCalc
    /\ push = NoPush
    /\ track = NoTrack
    /\ reg = NoReg
    /\ app = NoApp
    /\ auth = [sessions |-> <<>>, tokens |-> {}, uuids |-> 0, logged_out |-> {},
               last |-> NoLast]

AuthNext ==
    \/ \E u \in Users : verify_otp(u)
    \/ \E u \in Users : google_callback(u)
    \/ \E token \in [type : {"access", "refresh"}, sub : Users, jti : 1..MaxUuids],
          expired \in BOOLEAN : refresh_access_token(token, expired)
    \/ \E token \in [type : {"access", "refresh"}, sub : Users, jti : 1..MaxUuids],
          expired \in BOOLEAN : logout_user(token, expired)
    \/ \E token \in [type : {"access", "refresh"}, sub : Users, jti : 1..MaxUuids],
          expired \in BOOLEAN : authenticated_request(token, expired)

AuthSpec == AuthInit /\ [][AuthNext]_vars

\* ------------------------------------------------------------ C30
\* C30: once a session is logged out, every later request with its access
\* token and every refresh with its refresh token is rejected, whatever
\* follows (OTP logins, Google logins, refreshes of other sessions): the tokens
\* of a revoked session never become valid again.
C30_RevokedStaysRevoked ==
    /\ [](auth # NoAuth =>
            \A token \in auth.tokens :
                token.jti \in auth.logged_out =>
                    /\ _get_auth_context(token, FALSE) # "200"
                    /\ RefreshStatus(token, FALSE) # "200")
    /\ [][(auth'.last.op \in {"request", "refresh", "logout"}
            /\ auth'.last.token.jti \in auth.logged_out) =>
              auth'.last.status # "200"]_vars

\* user 1 logged out of the session a Google login had given them, logged in
\* with Google again (the row is reused and active), and a request with the
\* old access token is rejected
C30_Witness ==
    /\ auth # NoAuth
    /\ auth.last.op = "request"
    /\ auth.last.token.type = "access"
    /\ auth.last.token.jti \in auth.logged_out
    /\ auth.last.status = "401"
    /\ \E i \in 1..Len(auth.sessions) :
          /\ auth.sessions[i].user_id = auth.last.token.sub
          /\ auth.sessions[i].is_active
          /\ auth.sessions[i].jti > auth.last.token.jti
    /\ Len(auth.sessions) = 1

====
